---- MODULE Spec2Model ----
(***************************************************************************)
(* Verification model of the secure-transport and key-custody core of the  *)
(* SecureCipher browser client:                                            *)
(*   src/src/services/secureApi.js      (server-key cache, secure request, *)
(*                                       token refresh, retry wrapper)     *)
(*   src/src/utils/SecureKeyManager.js  (PIN wrapping, IndexedDB record,   *)
(*                                       ephemeral keys, canonical JSON)   *)
(* Cryptography is symbolic: a ciphertext remembers the key and iv that    *)
(* made it, a signature remembers its signer and the signed bytes.         *)
(***************************************************************************)
EXTENDS Integers, Sequences, FiniteSets, TLC

(***************************************************************************)
(* Bounds of the model.                                                    *)
(***************************************************************************)
NumCalls == 2
MaxTicks == 1
NumServerKeys == 2

(***************************************************************************)
(* Program constants.                                                      *)
(***************************************************************************)
CACHE_DURATION == 300000

\* the clock is observed in steps of one cache lifetime
TickMs == CACHE_DURATION

Calls == 1..NumCalls
ServerKeys == 1..NumServerKeys
MaxNow == MaxTicks * TickMs

NoKey == 0
NoPem == <<>>
PemHeader == "-----BEGIN PUBLIC KEY-----"
PemFooter == "-----END PUBLIC KEY-----"

(***************************************************************************)
(* Symbolic AES-GCM: decryption authenticates key and iv.                  *)
(***************************************************************************)
AesGcmEncrypt(key, iv, pt) == [key |-> key, iv |-> iv, pt |-> pt]

AesGcmDecryptOk(key, iv, ct) == ct.key = key /\ ct.iv = iv

(***************************************************************************)
(* PEM framing of a public key and its import.                             *)
(***************************************************************************)
exportPublicKeyAsPem(k) == <<PemHeader, k, PemFooter>>

importServerPublicKey(pem) == pem[2]

(***************************************************************************)
(* Error messages, as token sequences.                                     *)
(***************************************************************************)
ErrNoKeyPair == <<"Secure API call requires an unlocked key pair.">>
ErrServerKey == <<"Failed to fetch server public key.">>
ErrNetwork == <<"TypeError: Failed to fetch">>
ErrJson == <<"SyntaxError: Unexpected token in JSON">>
ErrExport == <<"TypeError: parameter 2 is not of type 'CryptoKey'">>
ErrUnknown == <<"An unknown error occurred.">>
ErrProcess == <<"Failed to process server error response.">>

\* message of the OperationError raised by subtle.decrypt: empty in some
\* engines, a fixed text in others
OperationErrorMessages == {<<>>, <<"The operation failed for an operation-specific reason">>}

Statuses == {200, 401, 500}

StatusTag(s) == CASE s = 401 -> "[401]" [] s = 500 -> "[500]" [] OTHER -> "[200]"

\* every status taken for a success
ResponseOkAnyStatus(s) == TRUE

\* gateway_response.ok
ResponseOk(s) == s >= 200 /\ s <= 299

(***************************************************************************)
(* State.                                                                  *)
(*  secureApi.js module state: serverPublicKey, serverPublicKeyPem,        *)
(*    isRefreshing; SecureTransactionHandler: ephemeralKeyCache,           *)
(*    cacheTimestamp; browser: localStorage, location, now (Date.now()).   *)
(*  Environment: serverKey (the key the server currently serves).          *)
(*  calls: one record per asynchronous secureApi call, holding its         *)
(*    position, its locals and the envelope it has in flight.              *)
(*  History: serverKeyFetchedAt is the time serverPublicKey was assigned;  *)
(*    a call served from the cache notes the key's age in keyAge.          *)
(***************************************************************************)
VARIABLES serverPublicKey, serverPublicKeyPem, ephemeralKeyCache, cacheTimestamp,
          isRefreshing, localStorage, location, now, serverKey, calls,
          serverKeyFetchedAt

apiVars == <<serverPublicKey, serverPublicKeyPem, ephemeralKeyCache, cacheTimestamp,
             isRefreshing, localStorage, location, now, serverKey, calls,
             serverKeyFetchedAt>>

(***************************************************************************)
(*  Key custody (SecureKeyManager): indexedDB is the record stored under   *)
(*    KEY_ID; generated, wrapped, unlocked, unlockResult and lastSig are   *)
(*    values held in page memory; reloaded tells that the page has been    *)
(*    loaded afresh since the record was stored.  posted is the body of    *)
(*    the request made with the unlocked key.                              *)
(*  History: lastStored is the record handed to the latest                 *)
(*    storeEncryptedKey call.                                              *)
(***************************************************************************)
VARIABLES indexedDB, generated, wrapped, unlocked, unlockResult, lastSig, reloaded,
          posted, lastStored

keyVars == <<indexedDB, generated, wrapped, unlocked, unlockResult, lastSig, reloaded,
             posted, lastStored>>

(***************************************************************************)
(*  Canonical JSON (SecureTransactionHandler._getCanonicalJson): canonA    *)
(*    and canonB are two deep-equal inputs, canonicalJsonCache is the      *)
(*    memo Map, canonOut holds what the calls returned, canonPc the        *)
(*    position of the run.                                                 *)
(***************************************************************************)
VARIABLES canonPc, canonA, canonB, canonicalJsonCache, canonOut

canonVars == <<canonPc, canonA, canonB, canonicalJsonCache, canonOut>>

(***************************************************************************)
(*  Session channel (encryptPayload / decryptResponse): sessPayload is the *)
(*    plaintext object, sessKey the session key it is sealed under,        *)
(*    sessSealed the { ciphertext, iv } encryptPayload returned, sessWire  *)
(*    the { ciphertext, iv } handed to decryptResponse, sessUsedKey the    *)
(*    key handed to it, sessOut what it returned or threw, sessPc the      *)
(*    position of the run.                                                 *)
(***************************************************************************)
VARIABLES sessPc, sessPayload, sessKey, sessSealed, sessWire, sessUsedKey, sessOut

sessVars == <<sessPc, sessPayload, sessKey, sessSealed, sessWire, sessUsedKey, sessOut>>

(***************************************************************************)
(*  PIN-login AuthProvider (src/unnamed/part_006 and part_007, authSource  *)
(*    says which): authDb is the record in IndexedDB, authDbDeleting a     *)
(*    pending deleteDatabase, authLocal the localStorage items the         *)
(*    provider uses, isAuthenticated and unlockedKeyPair its React state   *)
(*    of those names, authView its userPublicKey, pinIsSet and error       *)
(*    state, statusChecks the checkAuthStatus runs that wait for           *)
(*    getEncryptedKey (each with the unlockedKeyPair its closure holds),   *)
(*    loginCall and registerCall the login and register in progress.       *)
(***************************************************************************)
VARIABLES authSource, authDb, authDbDeleting, authLocal, isAuthenticated,
          unlockedKeyPair, authView, statusChecks, loginCall, registerCall

authVars == <<authSource, authDb, authDbDeleting, authLocal, isAuthenticated,
              unlockedKeyPair, authView, statusChecks, loginCall, registerCall>>

(***************************************************************************)
(*  Token-based AuthProvider (src/src/context/AuthContext.jsx): tokStorage *)
(*    is the localStorage it and secureApi's logout touch, tokState its    *)
(*    React state, tokLast the operation called last and tokThrown what    *)
(*    that call threw.                                                     *)
(***************************************************************************)
VARIABLES tokStorage, tokState, tokLast, tokThrown

tokVars == <<tokStorage, tokState, tokLast, tokThrown>>

(***************************************************************************)
(*  cryptoLogin (secureApi.js lines 200-264): clPc is the position of the  *)
(*    call, clKeyPair its argument, clSession the session key it derived,  *)
(*    clOut how its promise settled, clStorage localStorage,               *)
(*    clServerPublicKey the module's cached server key, clRuns the number  *)
(*    of calls made.                                                       *)
(***************************************************************************)
VARIABLES clPc, clKeyPair, clSession, clOut, clStorage, clServerPublicKey, clRuns

clVars == <<clPc, clKeyPair, clSession, clOut, clStorage, clServerPublicKey, clRuns>>

(***************************************************************************)
(*  PrivateKeyProvider (src/src/context/PrivateKeyContext.jsx): pkState    *)
(*    is its React state (privateKey, isUnlocking, unlockError,            *)
(*    showPinModal, pendingResolve, the last naming the promise whose      *)
(*    resolve function it holds), pkPromises the promises handed out by    *)
(*    requestPrivateKey, pkUnlocks the unlockPrivateKey calls waiting for  *)
(*    getPrivateKey, each with the pendingResolve its closure holds.       *)
(*  History: an unlock call remembers in seen the promises that existed    *)
(*    when it was made; pkOwed holds the pending promises that a later     *)
(*    successful unlock has left behind.                                   *)
(***************************************************************************)
VARIABLES pkState, pkPromises, pkUnlocks, pkOwed

pkVars == <<pkState, pkPromises, pkUnlocks, pkOwed>>

uiVars == <<authVars, tokVars, clVars, pkVars>>

vars == <<apiVars, keyVars, canonVars, sessVars, uiVars>>

notApi == <<keyVars, canonVars, sessVars, uiVars>>

notKeys == <<apiVars, canonVars, sessVars, uiVars>>

notCanon == <<apiVars, keyVars, sessVars, uiVars>>

notSess == <<apiVars, keyVars, canonVars, uiVars>>

notAuth == <<apiVars, keyVars, canonVars, sessVars, tokVars, clVars, pkVars>>

notTok == <<apiVars, keyVars, canonVars, sessVars, authVars, clVars, pkVars>>

notPk == <<apiVars, keyVars, canonVars, sessVars, authVars, tokVars, clVars>>

notCl == <<apiVars, keyVars, canonVars, sessVars, authVars, tokVars, pkVars>>

(***************************************************************************)
(* Key pairs, payloads and the callers' inputs.                            *)
(***************************************************************************)
\* the public half of the key pair whose private half is privateKey
PublicHalf(privateKey) == privateKey \o ".pub"

NoKeyPair == [privateKey |-> "none", publicKey |-> "none"]
UserKeyPair == [privateKey |-> "user", publicKey |-> PublicHalf("user")]
PrivateOnlyKeyPair == [privateKey |-> "user", publicKey |-> "none"]
TempKeyPair == [privateKey |-> "temp", publicKey |-> PublicHalf("temp")]

CallerKeyPairs == {NoKeyPair, PrivateOnlyKeyPair, UserKeyPair}

UserPins == {"1234"}

NoPayload == [fields |-> {}, pin |-> "none", refresh |-> "none"]

\* SendMoney.handleSubmit builds {from_account, to_account, amount, description, pin}
TransferPayload(pin) ==
    [fields |-> {"from_account", "to_account", "amount", "description", "pin"},
     pin |-> pin, refresh |-> "none"]

\* PINSetup.handleSubmit posts { pin }
SetPinPayload(pin) == [fields |-> {"pin"}, pin |-> pin, refresh |-> "none"]

\* a caller of the API that supplies a key pair (payload {amount, to})
PlainPayload == [fields |-> {"amount", "to"}, pin |-> "none", refresh |-> "none"]

\* refreshToken posts { refresh: refreshToken }
RefreshPayload(tok) == [fields |-> {"refresh"}, pin |-> "none", refresh |-> tok]

NoSig == [signer |-> "none", data |-> NoPayload]

\* ECDSA signature of the payload under a private key
signTransaction(payload, privateKey) == [signer |-> privateKey, data |-> payload]

NoEph == <<0, 0>>

\* a fresh random value (key pair, nonce, iv) made by attempt att of call c
Fresh(c, att) == <<c, att>>

NoSession == <<NoEph, NoKey>>

\* ECDH shared secret of an ephemeral key and a server key, through HKDF
deriveSessionKey(eph, serverPub) == <<eph, serverPub>>

NoEnvelope == [target |-> "none"]

NoWire == [to |-> "none"]

NoResponse == [access |-> "none", refresh |-> "none", error |-> "none"]

NoBody == [ciphertext |-> AesGcmEncrypt(NoSession, NoEph, NoResponse), iv |-> NoEph]

IdleCall ==
    [pc |-> "idle", phase |-> "first", att |-> 0,
     keyPair |-> NoKeyPair, payload |-> NoPayload, target |-> "none",
     reqKeyPair |-> NoKeyPair, reqPayload |-> NoPayload, reqTarget |-> "none",
     skey |-> NoKey, spem |-> NoPem, importing |-> NoPem,
     cacheHit |-> FALSE, keyAge |-> 0,
     ephNow |-> 0, eph |-> NoEph, session |-> NoSession, sig |-> NoSig,
     envelope |-> NoEnvelope, wire |-> NoWire, status |-> 0, body |-> NoBody,
     err |-> <<>>, firstErr |-> <<>>, retries |-> 0, sends |-> 0]

EmptyStorage ==
    [accessToken |-> "none", refreshToken |-> "none",
     userPublicKey |-> "none", encryptedPrivateKey |-> "none"]

\* what cryptoLogin left in localStorage (lines 254-257)
InitialStorage ==
    [EmptyStorage EXCEPT !.accessToken = "a0", !.refreshToken = "r0",
                         !.userPublicKey = "pem"]

ApiInit ==
    /\ serverPublicKey = NoKey
    /\ serverPublicKeyPem = NoPem
    /\ ephemeralKeyCache = NoEph
    /\ cacheTimestamp = 0
    /\ isRefreshing = FALSE
    /\ localStorage = InitialStorage
    /\ location = "/"
    /\ now = 0
    /\ serverKey = 1
    /\ calls = [c \in Calls |-> IdleCall]
    /\ serverKeyFetchedAt = 0

(***************************************************************************)
(* A rejection or a return of makeSecureRequest is handled by the          *)
(* continuation of its caller before any other task runs: no other step    *)
(* is taken while a call sits at "failed" or "decrypted".                  *)
(***************************************************************************)
Quiet == \A c \in Calls : calls[c].pc \notin {"failed", "decrypted"}

(***************************************************************************)
(* getServerPublicKey, line 10: a cached key is returned as it is,         *)
(* whatever its age.                                                       *)
(***************************************************************************)
ServerKeyCached == serverPublicKey # NoKey

(***************************************************************************)
(* makeSecureRequest, lines 32-41, entered with call record r: the key     *)
(* pair guard, then getServerPublicKey from the cache or by a fetch.       *)
(***************************************************************************)
\* the guard of lines 36-38 left out
HasUnlockedKeyPairUnchecked(kp) == TRUE

HasUnlockedKeyPair(kp) == kp.privateKey # "none"

Enter(c, r) ==
    calls' = [calls EXCEPT ![c] =
                IF ~HasUnlockedKeyPair(r.reqKeyPair)
                THEN [r EXCEPT !.pc = "failed", !.err = ErrNoKeyPair]
                ELSE IF ServerKeyCached
                THEN [r EXCEPT !.pc = "sign", !.skey = serverPublicKey,
                               !.spem = serverPublicKeyPem,
                               !.cacheHit = TRUE,
                               !.keyAge = now - serverKeyFetchedAt]
                ELSE [r EXCEPT !.pc = "keyFetch"]]

\* the locals of a new makeSecureRequest invocation
NewAttempt(r, kp, payload, target) ==
    [r EXCEPT !.att = r.att + 1, !.reqKeyPair = kp, !.reqPayload = payload,
              !.reqTarget = target, !.skey = NoKey, !.spem = NoPem,
              !.importing = NoPem, !.cacheHit = FALSE, !.keyAge = 0,
              !.ephNow = 0, !.eph = NoEph,
              !.session = NoSession, !.sig = NoSig, !.envelope = NoEnvelope,
              !.wire = NoWire, !.status = 0, !.body = NoBody, !.err = <<>>]

\* secureApi.post/get -> secureRequestWithRefresh -> makeSecureRequest;
\* the calls are numbered in the order they are made
StartCall(c, kp, payload, target) ==
    /\ Quiet
    /\ calls[c].pc = "idle"
    /\ \A d \in Calls : d < c => calls[d].pc # "idle"
    /\ Enter(c, NewAttempt([calls[c] EXCEPT !.keyPair = kp, !.payload = payload,
                                            !.target = target, !.phase = "first"],
                           kp, payload, target))
    /\ UNCHANGED <<serverPublicKey, serverPublicKeyPem, ephemeralKeyCache,
                   cacheTimestamp, isRefreshing, localStorage, location, now,
                   serverKey, serverKeyFetchedAt>>
    /\ UNCHANGED notApi

\* a caller that follows the API contract and passes options.keyPair
SecureCall(c) == \E kp \in CallerKeyPairs : StartCall(c, kp, PlainPayload, "transfer")

\* SendMoney.handleSubmit: options are { target: 'transfer' }, without keyPair
SendMoneySubmit(c) == \E pin \in UserPins : StartCall(c, NoKeyPair, TransferPayload(pin), "transfer")

\* PINSetup.handleSubmit: options are { target: 'set_pin' }, without keyPair
PINSetupSubmit(c) == \E pin \in UserPins : StartCall(c, NoKeyPair, SetPinPayload(pin), "set_pin")

\* a thrown error that does not end the request
FailKeepsGoing(c, e) == calls' = [calls EXCEPT ![c].pc = "encrypt", ![c].err = e]

Fail(c, e) == calls' = [calls EXCEPT ![c].pc = "failed", ![c].err = e]

(***************************************************************************)
(* getServerPublicKey, lines 11-16: the fetch of the public-key endpoint   *)
(* settles.  A rejected fetch and an unparsable body throw their own       *)
(* error, a non-ok response throws 'Failed to fetch server public key.',   *)
(* an ok response assigns serverPublicKeyPem and starts the import.        *)
(***************************************************************************)
KeyFetchFailures == {ErrNetwork, ErrServerKey, ErrJson}

KeyFetchResponse(c) ==
    /\ Quiet
    /\ calls[c].pc = "keyFetch"
    /\ \/ /\ \E e \in KeyFetchFailures : Fail(c, e)
          /\ UNCHANGED serverPublicKeyPem
       \/ /\ serverPublicKeyPem' = exportPublicKeyAsPem(serverKey)
          /\ calls' = [calls EXCEPT ![c].pc = "keyImport",
                                    ![c].importing = exportPublicKeyAsPem(serverKey)]
    /\ UNCHANGED <<serverPublicKey, ephemeralKeyCache, cacheTimestamp, isRefreshing,
                   localStorage, location, now, serverKey,
                   serverKeyFetchedAt>>
    /\ UNCHANGED notApi

(***************************************************************************)
(* getServerPublicKey, lines 17-19: the import settles, serverPublicKey is *)
(* assigned and the two module variables are read for the result.          *)
(***************************************************************************)
KeyImported(c) ==
    /\ Quiet
    /\ calls[c].pc = "keyImport"
    /\ serverPublicKey' = importServerPublicKey(calls[c].importing)
    /\ serverKeyFetchedAt' = now
    /\ calls' = [calls EXCEPT ![c].pc = "sign",
                              ![c].importing = NoPem,
                              ![c].skey = serverPublicKey',
                              ![c].spem = serverPublicKeyPem]
    /\ UNCHANGED <<serverPublicKeyPem, ephemeralKeyCache, cacheTimestamp, isRefreshing,
                   localStorage, location, now, serverKey>>
    /\ UNCHANGED notApi

(***************************************************************************)
(* SecureTransactionHandler.generateEphemeralKeyPair, lines 204-210: the   *)
(* cached pair is handed out while it is younger than CACHE_DURATION.      *)
(***************************************************************************)
EphemeralCacheHit(t) ==
    ephemeralKeyCache # NoEph /\ (t - cacheTimestamp) < CACHE_DURATION

(***************************************************************************)
(* makeSecureRequest, lines 43-48: the public key is exported and the      *)
(* payload signed; then generateEphemeralKeyPair runs up to its await.     *)
(***************************************************************************)
SignDone(c) ==
    /\ Quiet
    /\ calls[c].pc = "sign"
    /\ LET r == calls[c] IN
       IF r.reqKeyPair.publicKey = "none"
       THEN Fail(c, ErrExport)
       ELSE LET s == signTransaction(r.reqPayload, r.reqKeyPair.privateKey) IN
            IF EphemeralCacheHit(now)
            THEN calls' = [calls EXCEPT ![c].pc = "derive", ![c].sig = s,
                                        ![c].spem = NoPem, ![c].cacheHit = FALSE,
                                        ![c].keyAge = 0,
                                        ![c].eph = ephemeralKeyCache]
            ELSE calls' = [calls EXCEPT ![c].pc = "ephGen", ![c].sig = s,
                                        ![c].spem = NoPem, ![c].cacheHit = FALSE,
                                        ![c].keyAge = 0,
                                        ![c].ephNow = now]
    /\ UNCHANGED <<serverPublicKey, serverPublicKeyPem, ephemeralKeyCache,
                   cacheTimestamp, isRefreshing, localStorage, location, now,
                   serverKey, serverKeyFetchedAt>>
    /\ UNCHANGED notApi

(***************************************************************************)
(* generateEphemeralKeyPair, lines 212-221: generateKey settles; the new   *)
(* pair and the time read before the await go into the cache.              *)
(***************************************************************************)
EphGenerated(c) ==
    /\ Quiet
    /\ calls[c].pc = "ephGen"
    /\ ephemeralKeyCache' = Fresh(c, calls[c].att)
    /\ cacheTimestamp' = calls[c].ephNow
    /\ calls' = [calls EXCEPT ![c].pc = "derive", ![c].ephNow = 0,
                              ![c].eph = Fresh(c, calls[c].att)]
    /\ UNCHANGED <<serverPublicKey, serverPublicKeyPem, isRefreshing, localStorage,
                   location, now, serverKey,
                   serverKeyFetchedAt>>
    /\ UNCHANGED notApi

(***************************************************************************)
(* makeSecureRequest, lines 49-66: the session key is derived, the access  *)
(* token read and the plaintext envelope assembled.                        *)
(***************************************************************************)
SecurePayload(r, token, t, nonce) ==
    [target |-> r.reqTarget,
     url_params |-> {},
     transaction_data |-> r.reqPayload,
     client_signature |-> r.sig,
     client_public_key |-> exportPublicKeyAsPem(r.reqKeyPair.publicKey),
     auth_token |-> token,
     timestamp |-> t \div 1000,
     nonce |-> nonce]

Derived(c) ==
    /\ Quiet
    /\ calls[c].pc = "derive"
    /\ LET r == calls[c] IN
       calls' = [calls EXCEPT ![c].pc = "encrypt",
                              ![c].session = deriveSessionKey(r.eph, r.skey),
                              ![c].envelope = SecurePayload(r, localStorage.accessToken, now,
                                                            Fresh(c, r.att))]
    /\ UNCHANGED <<serverPublicKey, serverPublicKeyPem, ephemeralKeyCache,
                   cacheTimestamp, isRefreshing, localStorage, location, now,
                   serverKey, serverKeyFetchedAt>>
    /\ UNCHANGED notApi

(***************************************************************************)
(* SecureTransactionHandler.encryptPayload, lines 259-271, and the POST of *)
(* { ephemeral_pubkey, ciphertext, iv } to the gateway, lines 69-80.       *)
(***************************************************************************)
encryptPayload(payload, sessionKey, iv) ==
    [ciphertext |-> AesGcmEncrypt(sessionKey, iv, payload), iv |-> iv]

Encrypted(c) ==
    /\ Quiet
    /\ calls[c].pc = "encrypt"
    /\ LET r == calls[c]
           e == encryptPayload(r.envelope, r.session, Fresh(c, r.att))
       IN calls' = [calls EXCEPT ![c].pc = "awaitResp",
                                 ![c].wire = [to |-> "gateway",
                                              ephemeral_pubkey |-> r.eph,
                                              ciphertext |-> e.ciphertext,
                                              iv |-> e.iv],
                                 ![c].sends = r.sends + 1,
                                 ![c].envelope = NoEnvelope,
                                 ![c].sig = NoSig]
    /\ UNCHANGED <<serverPublicKey, serverPublicKeyPem, ephemeralKeyCache,
                   cacheTimestamp, isRefreshing, localStorage, location, now,
                   serverKey, serverKeyFetchedAt>>
    /\ UNCHANGED notApi

(***************************************************************************)
(* The gateway's answers.  The server derives the session key from the     *)
(* ephemeral public key it received and the key it holds now, and          *)
(* encrypts a plaintext {access?, refresh?, error?}; a body may also be    *)
(* sealed under a key the client does not have.                            *)
(***************************************************************************)
ResponsePlaintexts ==
    {NoResponse,
     [access |-> "a1", refresh |-> "none", error |-> "none"],
     [access |-> "a1", refresh |-> "r1", error |-> "none"],
     [access |-> "none", refresh |-> "none", error |-> "Token expired"]}

ResponseBodies(eph) ==
    {encryptPayload(pt, k, NoEph) : pt \in ResponsePlaintexts,
                                    k \in {deriveSessionKey(eph, serverKey)}}
    \cup {encryptPayload(NoResponse, NoSession, NoEph)}

(***************************************************************************)
(* SecureTransactionHandler.decryptResponse, lines 273-282.                *)
(***************************************************************************)
decryptResponseOk(encryptedResponse, sessionKey) ==
    AesGcmDecryptOk(sessionKey, encryptedResponse.iv, encryptedResponse.ciphertext)

decryptResponse(encryptedResponse, sessionKey) == encryptedResponse.ciphertext.pt

\* e.message || fallback
OrElse(msg, fallback) == IF msg = <<>> THEN fallback ELSE msg

(***************************************************************************)
(* makeSecureRequest, lines 84-91: the error thrown for a non-ok status.   *)
(* The error of the inner throw is caught by the catch right below it,     *)
(* which prefixes the status tag again.                                    *)
(***************************************************************************)
ErrorResponseMessage(s, body, sessionKey, opMsg) ==
    LET inner == IF decryptResponseOk(body, sessionKey)
                 THEN <<StatusTag(s)>> \o
                      (IF decryptResponse(body, sessionKey).error # "none"
                       THEN <<decryptResponse(body, sessionKey).error>>
                       ELSE ErrUnknown)
                 ELSE opMsg
    IN <<StatusTag(s)>> \o OrElse(inner, ErrProcess)

(***************************************************************************)
(* makeSecureRequest, lines 72-102: the POST settles.  A rejected fetch    *)
(* and an unparsable body throw; a non-ok status throws the tagged error;  *)
(* an ok body is decrypted and an access token in it is stored.  Between   *)
(* the arrival of the response and line 97 only locals are touched.        *)
(***************************************************************************)
GatewayFailures == {ErrNetwork, ErrJson}

GatewayResponse(c) ==
    /\ Quiet
    /\ calls[c].pc = "awaitResp"
    /\ LET r == calls[c] IN
       \/ /\ \E e \in GatewayFailures :
                calls' = [calls EXCEPT ![c].pc = "failed", ![c].err = e,
                                       ![c].wire = NoWire]
          /\ UNCHANGED localStorage
       \/ \E s \in Statuses, b \in ResponseBodies(r.eph), m \in OperationErrorMessages :
            IF ~ResponseOk(s)
            THEN /\ calls' = [calls EXCEPT ![c].pc = "failed", ![c].wire = NoWire,
                                 ![c].err = ErrorResponseMessage(s, b, r.session, m)]
                 /\ UNCHANGED localStorage
            ELSE IF ~decryptResponseOk(b, r.session)
            THEN /\ calls' = [calls EXCEPT ![c].pc = "failed", ![c].wire = NoWire,
                                           ![c].err = m]
                 /\ UNCHANGED localStorage
            ELSE /\ calls' = [calls EXCEPT ![c].pc = "decrypted", ![c].wire = NoWire,
                                           ![c].status = s, ![c].body = b]
                 /\ localStorage' =
                      IF decryptResponse(b, r.session).access # "none"
                      THEN [localStorage EXCEPT
                              !.accessToken = decryptResponse(b, r.session).access]
                      ELSE localStorage
    /\ UNCHANGED <<serverPublicKey, serverPublicKeyPem, ephemeralKeyCache,
                   cacheTimestamp, isRefreshing, location, now, serverKey,
                   serverKeyFetchedAt>>
    /\ UNCHANGED notApi

(***************************************************************************)
(* logout, lines 185-192: the four credentials are removed.                *)
(***************************************************************************)
\* a logout that removes the access token only
logoutAccessTokenOnly(ls) == [ls EXCEPT !.accessToken = "none"]

logout(ls) ==
    [ls EXCEPT !.accessToken = "none", !.refreshToken = "none",
               !.userPublicKey = "none", !.encryptedPrivateKey = "none"]

\* error.message.includes('[401')
Is401(err) == \E i \in 1..Len(err) : err[i] = "[401]"

\* a refresh attempted after any kind of failure
ShouldRefreshOnAnyError(err, refreshing) == ~refreshing

\* a refresh attempted on a 401 whatever the flag says
ShouldRefreshIgnoringFlag(err, refreshing) == Is401(err)

\* secureRequestWithRefresh, line 163
ShouldRefresh(err, refreshing) == Is401(err) /\ ~refreshing

\* the record of a call whose promise has settled
Settled(pc) ==
    [IdleCall EXCEPT !.pc = pc]

(***************************************************************************)
(* The catch blocks around a failed makeSecureRequest:                     *)
(*  first attempt  - secureRequestWithRefresh, lines 161-177, and the      *)
(*                   start of refreshToken, lines 111-121;                 *)
(*  refresh        - refreshToken, lines 139-144, then lines 172-177;      *)
(*  retry          - the finally of lines 172-174.                         *)
(***************************************************************************)
CatchError(c) ==
    /\ calls[c].pc = "failed"
    /\ LET r == calls[c] IN
       CASE r.phase = "first" ->
              IF ShouldRefresh(r.err, isRefreshing) /\ localStorage.refreshToken # "none"
              THEN /\ isRefreshing' = TRUE
                   /\ calls' = [calls EXCEPT ![c].pc = "tempKey", ![c].phase = "refresh",
                                             ![c].firstErr = r.err,
                                             ![c].session = NoSession,
                                             ![c].eph = NoEph, ![c].status = 0,
                                             ![c].body = NoBody]
                   /\ UNCHANGED <<localStorage, location>>
              ELSE /\ calls' = [calls EXCEPT ![c] = Settled("rejected")]
                   /\ UNCHANGED <<isRefreshing, localStorage, location>>
         [] r.phase = "refresh" ->
              /\ localStorage' = logout(localStorage)
              /\ location' = "/login"
              /\ isRefreshing' = FALSE
              /\ calls' = [calls EXCEPT ![c] = Settled("rejected")]
         [] OTHER ->
              /\ isRefreshing' = FALSE
              /\ calls' = [calls EXCEPT ![c] = Settled("rejected")]
              /\ UNCHANGED <<localStorage, location>>
    /\ UNCHANGED <<serverPublicKey, serverPublicKeyPem, ephemeralKeyCache,
                   cacheTimestamp, now, serverKey,
                   serverKeyFetchedAt>>
    /\ UNCHANGED notApi

(***************************************************************************)
(* refreshToken, lines 121-127: the temporary signing key pair is ready    *)
(* and the refresh request is made with it.                                *)
(***************************************************************************)
TempKeyGenerated(c) ==
    /\ Quiet
    /\ calls[c].pc = "tempKey"
    /\ Enter(c, NewAttempt(calls[c], TempKeyPair,
                           RefreshPayload(localStorage.refreshToken),
                           "auth_token_refresh"))
    /\ UNCHANGED <<serverPublicKey, serverPublicKeyPem, ephemeralKeyCache,
                   cacheTimestamp, isRefreshing, localStorage, location, now,
                   serverKey, serverKeyFetchedAt>>
    /\ UNCHANGED notApi

(***************************************************************************)
(* A makeSecureRequest that returned:                                      *)
(*  first attempt  - secureRequestWithRefresh returns, line 160;           *)
(*  refresh        - refreshToken, lines 129-138: with an access token the *)
(*                   tokens are stored and the original request is made    *)
(*                   again, line 170; without one the first error is       *)
(*                   thrown, line 177;                                     *)
(*  retry          - lines 170-174.                                        *)
(***************************************************************************)
Completed(c) ==
    /\ calls[c].pc = "decrypted"
    /\ LET r == calls[c]
           resp == decryptResponse(r.body, r.session)
       IN
       CASE r.phase = "first" ->
              /\ calls' = [calls EXCEPT ![c] = Settled("resolved")]
              /\ UNCHANGED <<isRefreshing, localStorage>>
         [] r.phase = "refresh" ->
              IF resp.access # "none"
              THEN /\ localStorage' =
                        [localStorage EXCEPT
                           !.accessToken = resp.access,
                           !.refreshToken = IF resp.refresh # "none" THEN resp.refresh ELSE @]
                   /\ Enter(c, NewAttempt([r EXCEPT !.phase = "retry", !.firstErr = <<>>,
                                                    !.retries = r.retries + 1],
                                          r.keyPair, r.payload, r.target))
                   /\ UNCHANGED isRefreshing
              ELSE /\ isRefreshing' = FALSE
                   /\ calls' = [calls EXCEPT ![c] = Settled("rejected")]
                   /\ UNCHANGED localStorage
         [] OTHER ->
              /\ isRefreshing' = FALSE
              /\ calls' = [calls EXCEPT ![c] = Settled("resolved")]
              /\ UNCHANGED localStorage
    /\ UNCHANGED <<serverPublicKey, serverPublicKeyPem, ephemeralKeyCache,
                   cacheTimestamp, location, now, serverKey,
                   serverKeyFetchedAt>>
    /\ UNCHANGED notApi

(***************************************************************************)
(* Environment: time passes; the server replaces its long-term key.        *)
(***************************************************************************)
Tick ==
    /\ Quiet
    /\ now < MaxNow
    /\ now' = now + TickMs
    /\ UNCHANGED <<serverPublicKey, serverPublicKeyPem, ephemeralKeyCache,
                   cacheTimestamp, isRefreshing, localStorage, location, serverKey,
                   calls, serverKeyFetchedAt>>
    /\ UNCHANGED notApi

RotateServerKey ==
    /\ Quiet
    /\ serverKey + 1 \in ServerKeys
    /\ serverKey' = serverKey + 1
    /\ UNCHANGED <<serverPublicKey, serverPublicKeyPem, ephemeralKeyCache,
                   cacheTimestamp, isRefreshing, localStorage, location, now,
                   calls, serverKeyFetchedAt>>
    /\ UNCHANGED notApi

ApiNext ==
    \/ \E c \in Calls : SecureCall(c)
    \/ \E c \in Calls : SendMoneySubmit(c)
    \/ \E c \in Calls : PINSetupSubmit(c)
    \/ \E c \in Calls : KeyFetchResponse(c)
    \/ \E c \in Calls : KeyImported(c)
    \/ \E c \in Calls : SignDone(c)
    \/ \E c \in Calls : EphGenerated(c)
    \/ \E c \in Calls : Derived(c)
    \/ \E c \in Calls : Encrypted(c)
    \/ \E c \in Calls : GatewayResponse(c)
    \/ \E c \in Calls : CatchError(c)
    \/ \E c \in Calls : TempKeyGenerated(c)
    \/ \E c \in Calls : Completed(c)
    \/ Tick
    \/ RotateServerKey

(***************************************************************************)
(*                              Key custody                                *)
(***************************************************************************)
NumSalts == 2
NumIvs == 2

Salts == 1..NumSalts
Ivs == 1..NumIvs

Pins == {"4242", "123456"}
KeyIds == {"k1", "k2"}

ErrInvalidPin == <<"Invalid PIN. Please try again.">>
ErrCorrupted == <<"Corrupted key data. Please re-register.">>
ErrDecryptionFailed == <<"Decryption failed. Please try again.">>
ErrNoRecord == <<"TypeError: Cannot read properties of undefined (reading 'encrypted')">>

\* store.get(KEY_ID) when nothing was put
Absent == [absent |-> TRUE]

NoUnlock == [outcome |-> "none", pin |-> "none", record |-> Absent,
             key |-> "none", error |-> <<>>]

\* SecureKeyManager.generateKeyPair, lines 28-35: an ECDSA P-384 pair
generateKeyPair(id) == [privateKey |-> id, publicKey |-> PublicHalf(id)]

\* ECDSA verification of a signature over a payload under a public key
verifySignature(sig, payload, publicKey) ==
    PublicHalf(sig.signer) = publicKey /\ sig.data = payload

\* a wrapping key that depends on the salt alone
deriveEncryptionKeyIgnoringPin(pin, salt) == <<"", salt>>

\* SecureKeyManager.deriveEncryptionKey, lines 57-83: PBKDF2 of pin and salt
deriveEncryptionKey(pin, salt) == <<pin, salt>>

\* SecureKeyManager.encryptPrivateKey, lines 85-98, with its random salt and iv
encryptPrivateKey(privateKey, pin, salt, iv) ==
    [encrypted |-> AesGcmEncrypt(deriveEncryptionKey(pin, salt), iv, privateKey),
     salt |-> salt, iv |-> iv]

\* SecureKeyManager.decryptPrivateKey, lines 127-138: the message thrown for
\* an error of the given name
DecryptPrivateKeyError(name, mentionsDecrypt) ==
    IF name = "OperationError" \/ mentionsDecrypt THEN ErrInvalidPin
    ELSE IF name = "InvalidAccessError" THEN ErrCorrupted
    ELSE ErrDecryptionFailed

\* a ciphertext whose bytes were modified: its tag matches under no key
NoKeyOpens == "no key"

TamperCiphertext(ct) == [ct EXCEPT !.key = <<NoKeyOpens, @[2]>>]

\* a decryptPrivateKey that reports a modified ciphertext as corrupted data
decryptPrivateKeyTellingCauses(encrypted, pin, salt, iv) ==
    IF AesGcmDecryptOk(deriveEncryptionKey(pin, salt), iv, encrypted)
    THEN [outcome |-> "ok", key |-> encrypted.pt, error |-> <<>>]
    ELSE [outcome |-> "error", key |-> "none",
          error |-> IF encrypted.key[1] = NoKeyOpens THEN ErrCorrupted ELSE ErrInvalidPin]

\* SecureKeyManager.decryptPrivateKey, lines 100-139
decryptPrivateKey(encrypted, pin, salt, iv) ==
    IF AesGcmDecryptOk(deriveEncryptionKey(pin, salt), iv, encrypted)
    THEN [outcome |-> "ok", key |-> encrypted.pt, error |-> <<>>]
    ELSE [outcome |-> "error", key |-> "none",
          error |-> DecryptPrivateKeyError("OperationError", FALSE)]

\* a record stored without its iv
StoredRecordWithoutIv(rec) == [encrypted |-> rec.encrypted, salt |-> rec.salt, iv |-> 0]

\* a put that keeps the salt of the record already stored
StoredRecordMergedWithOld(rec) ==
    [encrypted |-> rec.encrypted,
     salt |-> IF indexedDB = Absent THEN rec.salt ELSE indexedDB.salt,
     iv |-> rec.iv]

\* a put that keeps the exported private key next to its ciphertext
StoredRecordWithPlainKey(rec) ==
    [encrypted |-> rec.encrypted, salt |-> rec.salt, iv |-> rec.iv,
     privateKey |-> rec.encrypted.pt]

\* SecureKeyManager.storeEncryptedKey, line 169: what is put under KEY_ID
StoredRecord(rec) == [encrypted |-> rec.encrypted, salt |-> rec.salt, iv |-> rec.iv]

\* SecureKeyManager.getEncryptedKey, lines 176-195: store.get(KEY_ID)
\* resolves with the record, or with undefined when nothing was put
getEncryptedKey(store) == IF store = Absent THEN Absent ELSE store

\* SecureKeyManager.getPrivateKey, lines 141-145
getPrivateKey(record, pin) ==
    IF record = Absent
    THEN [outcome |-> "error", key |-> "none", error |-> ErrNoRecord]
    ELSE decryptPrivateKey(record.encrypted, pin, record.salt, record.iv)

\* error.name of the error object that carries a message: the errors made
\* with new Error(...) are plain Errors, the others keep the name the
\* platform gave them
ErrorName(err) ==
    IF err \in {ErrNetwork, ErrExport, ErrNoRecord} THEN "TypeError"
    ELSE IF err = ErrJson THEN "SyntaxError"
    ELSE IF err \in OperationErrorMessages THEN "OperationError"
    ELSE "Error"

\* the error raised inside getPrivateKey(pin) on a record: the read of
\* encryptedKey.encrypted (line 143) or subtle.decrypt (lines 108-112)
RaisedByUnlock(record, pin) ==
    IF record = Absent THEN "TypeError"
    ELSE IF ~AesGcmDecryptOk(deriveEncryptionKey(pin, record.salt), record.iv,
                             record.encrypted)
    THEN "OperationError"
    ELSE "none"

KeyInit ==
    /\ indexedDB = Absent
    /\ generated = "none"
    /\ wrapped = Absent
    /\ unlocked = "none"
    /\ unlockResult = NoUnlock
    /\ lastSig = NoSig
    /\ reloaded = FALSE
    /\ posted = NoWire
    /\ lastStored = Absent

\* PIN setup, step 1: generateKeyPair
GenerateKeyPair ==
    /\ \E id \in KeyIds : generated' = generateKeyPair(id).privateKey
    /\ UNCHANGED <<indexedDB, wrapped, unlocked, unlockResult, lastSig, reloaded,
                   posted, lastStored>>
    /\ UNCHANGED notKeys

\* PIN setup, step 2: encryptPrivateKey(keyPair.privateKey, pin)
EncryptPrivateKey ==
    /\ generated # "none"
    /\ \E pin \in Pins, salt \in Salts, iv \in Ivs :
          wrapped' = encryptPrivateKey(generated, pin, salt, iv)
    /\ UNCHANGED <<indexedDB, generated, unlocked, unlockResult, lastSig, reloaded,
                   posted, lastStored>>
    /\ UNCHANGED notKeys

\* PIN setup, step 3: storeEncryptedKey(encryptedKey)
StoreEncryptedKey ==
    /\ wrapped # Absent
    /\ indexedDB' = StoredRecord(wrapped)
    /\ lastStored' = wrapped
    /\ reloaded' = FALSE
    /\ UNCHANGED <<generated, wrapped, unlocked, unlockResult, lastSig, posted>>
    /\ UNCHANGED notKeys

\* the page is loaded afresh: memory is lost, IndexedDB is kept
Reload ==
    /\ generated' = "none"
    /\ wrapped' = Absent
    /\ unlocked' = "none"
    /\ unlockResult' = NoUnlock
    /\ lastSig' = NoSig
    /\ posted' = NoWire
    /\ reloaded' = TRUE
    /\ UNCHANGED <<indexedDB, lastStored>>
    /\ UNCHANGED notKeys

\* PrivateKeyContext.unlock -> SecureKeyManager.getPrivateKey(pin)
GetPrivateKey ==
    /\ \E pin \in Pins :
         LET res == getPrivateKey(getEncryptedKey(indexedDB), pin) IN
         /\ unlockResult' = [outcome |-> res.outcome, pin |-> pin, record |-> indexedDB,
                             key |-> res.key, error |-> res.error]
         /\ unlocked' = IF res.outcome = "ok" THEN res.key ELSE unlocked
    /\ UNCHANGED <<indexedDB, generated, wrapped, lastSig, reloaded, posted, lastStored>>
    /\ UNCHANGED notKeys

\* the body makeSecureRequest posts (secureApi.js 44-80) for a payload and
\* a key pair, given the server key it got and its fresh ephemeral key
PostedBody(payload, target, keyPair, serverPub, fresh) ==
    LET r == [reqTarget |-> target, reqPayload |-> payload, reqKeyPair |-> keyPair,
              sig |-> signTransaction(payload, keyPair.privateKey)]
        e == encryptPayload(SecurePayload(r, localStorage.accessToken, now, fresh),
                            deriveSessionKey(fresh, serverPub), fresh)
    IN [to |-> "gateway", ephemeral_pubkey |-> fresh,
        ciphertext |-> e.ciphertext, iv |-> e.iv]

\* the unlocked key signs a payload, which is sent in a secure request
SignWithUnlockedKey ==
    /\ unlocked # "none"
    /\ lastSig' = signTransaction(PlainPayload, unlocked)
    /\ posted' = PostedBody(PlainPayload, "transfer", generateKeyPair(unlocked),
                            serverKey, Fresh(1, 1))
    /\ UNCHANGED <<indexedDB, generated, wrapped, unlocked, unlockResult, reloaded,
                   lastStored>>
    /\ UNCHANGED notKeys

KeyNext ==
    \/ GenerateKeyPair
    \/ EncryptPrivateKey
    \/ StoreEncryptedKey
    \/ Reload
    \/ GetPrivateKey
    \/ SignWithUnlockedKey

\* the ciphertext of the stored record is modified on the device, outside
\* the program
TamperRecord ==
    /\ indexedDB # Absent
    /\ indexedDB.encrypted.key[1] # NoKeyOpens
    /\ indexedDB' = [indexedDB EXCEPT !.encrypted = TamperCiphertext(@)]
    /\ UNCHANGED <<generated, wrapped, unlocked, unlockResult, lastSig, reloaded, posted,
                   lastStored>>
    /\ UNCHANGED notKeys

TamperNext ==
    \/ GenerateKeyPair
    \/ EncryptPrivateKey
    \/ StoreEncryptedKey
    \/ Reload
    \/ GetPrivateKey
    \/ SignWithUnlockedKey
    \/ TamperRecord

(***************************************************************************)
(*                             Canonical JSON                              *)
(* JSON values are tagged records; strings, keys and the output are        *)
(* sequences of UTF-16 code units.  An object keeps its members in         *)
(* insertion order.                                                        *)
(***************************************************************************)
MaxMembers == 2

CanonCacheLimit == 100

JNull == [t |-> "null"]
\* the value undefined, which an object member or an array element can hold
JUndefined == [t |-> "undef"]
JNum(n) == [t |-> "num", n |-> n]
JStr(s) == [t |-> "str", s |-> s]
JArr(items) == [t |-> "arr", items |-> items]
JObj(pairs) == [t |-> "obj", pairs |-> pairs]

LBrace == <<123>>
RBrace == <<125>>
LBracket == <<91>>
RBracket == <<93>>
Comma == <<44>>
Colon == <<58>>
Quote == <<34>>
NullText == <<110, 117, 108, 108>>

\* "undefined", what a template literal makes of the value undefined
UndefinedText == <<117, 110, 100, 101, 102, 105, 110, 101, 100>>

\* JSON.stringify(undefined) is the value undefined, not a text
NotAText == <<-1>>

\* `${...}` in a template literal
InTemplate(text) == IF text = NotAText THEN UndefinedText ELSE text

\* an element under Array.prototype.join: undefined gives the empty text
InJoin(text) == IF text = NotAText THEN <<>> ELSE text

\* JSON.stringify leaves out the members whose value is undefined
IsSerialized(pair) == pair.v.t # "undef"

\* the keys "b" and "ab"
CanonKeys == {<<98>>, <<97, 98>>}

\* the leaves 1 and "x"
Leaves == {JNum(1), JStr(<<120>>)}

SeqsUpTo(V, n) == UNION {[1..m -> V] : m \in 0..n}

ObjectsOver(V) ==
    {JObj(p) : p \in {q \in SeqsUpTo([k : CanonKeys, v : V], MaxMembers) :
                         \A i, j \in 1..Len(q) : q[i].k = q[j].k => i = j}}

ArraysOver(V) == {JArr(a) : a \in SeqsUpTo(V, MaxMembers)}

Level1 == Leaves \cup ObjectsOver(Leaves) \cup ArraysOver(Leaves)

JsonInputs == ObjectsOver(Level1) \cup ArraysOver(Level1)

IsLeaf(v) == v.t \in {"null", "num", "str", "undef"}

KeysOf(v) == {v.pairs[i].k : i \in 1..Len(v.pairs)}

\* data[key]
ValueOf(v, key) == (CHOOSE i \in 1..Len(v.pairs) : v.pairs[i].k = key)

RECURSIVE DeepEqual(_, _)
DeepEqual(a, b) ==
    IF a.t # b.t THEN FALSE
    ELSE IF IsLeaf(a) THEN a = b
    ELSE IF a.t = "arr"
    THEN /\ Len(a.items) = Len(b.items)
         /\ \A i \in 1..Len(a.items) : DeepEqual(a.items[i], b.items[i])
    ELSE /\ KeysOf(a) = KeysOf(b)
         /\ \A k \in KeysOf(a) :
               DeepEqual(a.pairs[ValueOf(a, k)].v, b.pairs[ValueOf(b, k)].v)

RECURSIVE Join(_, _)
Join(parts, sep) ==
    IF Len(parts) = 0 THEN <<>>
    ELSE IF Len(parts) = 1 THEN parts[1]
    ELSE parts[1] \o sep \o Join(Tail(parts), sep)

\* JSON.stringify of a primitive (a one-digit number, a string without
\* characters that need escaping, null)
StringifyLeaf(v) ==
    CASE v.t = "num" -> <<48 + v.n>>
      [] v.t = "str" -> Quote \o v.s \o Quote
      [] v.t = "undef" -> NotAText
      [] OTHER -> NullText

\* JSON.stringify(data): members in insertion order
RECURSIVE Stringify(_)
Stringify(v) ==
    IF IsLeaf(v) THEN StringifyLeaf(v)
    ELSE IF v.t = "arr"
    THEN LBracket \o Join([i \in 1..Len(v.items) |->
                              IF v.items[i].t = "undef" THEN NullText
                              ELSE Stringify(v.items[i])], Comma) \o RBracket
    ELSE LET pairs == SelectSeq(v.pairs, IsSerialized)
         IN LBrace \o Join([i \in 1..Len(pairs) |->
                               Quote \o pairs[i].k \o Quote \o Colon \o Stringify(pairs[i].v)],
                           Comma) \o RBrace

\* the order of Array.prototype.sort() without a comparator: by code units
LexLess(a, b) ==
    \/ Len(a) < Len(b) /\ \A i \in 1..Len(a) : a[i] = b[i]
    \/ \E i \in 1..Len(a) :
          /\ i <= Len(b)
          /\ a[i] < b[i]
          /\ \A j \in 1..(i - 1) : a[j] = b[j]

\* Object.keys(data).sort()
RECURSIVE SortKeys(_)
SortKeys(S) ==
    IF S = {} THEN <<>>
    ELSE LET m == CHOOSE x \in S : \A y \in S : x = y \/ LexLess(x, y)
         IN <<m>> \o SortKeys(S \ {m})

(***************************************************************************)
(* SecureKeyManager.js, lines 291-315: _getCanonicalJson with its memo.    *)
(* A value whose JSON.stringify text is in the Map gets the stored text;   *)
(* otherwise primitives are stringified, arrays map the method through an  *)
(* arrow function and objects emit their sorted keys.                      *)
(***************************************************************************)
\* members written in insertion order, as JSON.stringify does
getCanonicalJsonInsertionOrder(data, cache) == Stringify(data)

RECURSIVE getCanonicalJson(_, _)
getCanonicalJson(data, cache) ==
    IF \E e \in cache : e.key = Stringify(data)
    THEN (CHOOSE e \in cache : e.key = Stringify(data)).value
    ELSE IF IsLeaf(data) THEN StringifyLeaf(data)
    ELSE IF data.t = "arr"
    THEN LBracket \o Join([i \in 1..Len(data.items) |->
                              InJoin(getCanonicalJson(data.items[i], cache))], Comma)
                  \o RBracket
    ELSE LET keys == SortKeys(KeysOf(data))
         IN LBrace \o Join([i \in 1..Len(keys) |->
                               Quote \o keys[i] \o Quote \o Colon \o
                               InTemplate(getCanonicalJson(data.pairs[ValueOf(data, keys[i])].v,
                                                           cache))],
                           Comma) \o RBrace

\* Map.prototype.set
MapSet(cache, key, value) ==
    {e \in cache : e.key # key} \cup {[key |-> key, value |-> value]}

\* _getCanonicalJson, lines 291-315, with the Map as it changes during the
\* call: the nested calls fill it before the outer call stores its own
\* entry, and each call empties a Map of more than CanonCacheLimit entries
\* before it stores.  The result is the text and the Map left behind.
RECURSIVE getCanonicalJsonMemo(_, _)
RECURSIVE MemoEach(_, _)
MemoEach(values, cache) ==
    IF Len(values) = 0 THEN [texts |-> <<>>, cache |-> cache]
    ELSE LET first == getCanonicalJsonMemo(Head(values), cache)
             rest == MemoEach(Tail(values), first.cache)
         IN [texts |-> <<first.text>> \o rest.texts, cache |-> rest.cache]

getCanonicalJsonMemo(data, cache) ==
    LET dataStr == Stringify(data) IN
    IF \E e \in cache : e.key = dataStr
    THEN [text |-> (CHOOSE e \in cache : e.key = dataStr).value, cache |-> cache]
    ELSE LET keys == IF data.t = "obj" THEN SortKeys(KeysOf(data)) ELSE <<>>
             inner == IF IsLeaf(data) THEN [texts |-> <<>>, cache |-> cache]
                      ELSE IF data.t = "arr" THEN MemoEach(data.items, cache)
                      ELSE MemoEach([i \in 1..Len(keys) |->
                                        data.pairs[ValueOf(data, keys[i])].v], cache)
             canonical ==
                 IF IsLeaf(data) THEN StringifyLeaf(data)
                 ELSE IF data.t = "arr"
                 THEN LBracket \o Join([i \in 1..Len(inner.texts) |->
                                           InJoin(inner.texts[i])], Comma) \o RBracket
                 ELSE LBrace \o Join([i \in 1..Len(keys) |->
                                         Quote \o keys[i] \o Quote \o Colon \o
                                         InTemplate(inner.texts[i])], Comma) \o RBrace
             kept == IF Cardinality(inner.cache) > CanonCacheLimit THEN {} ELSE inner.cache
         IN [text |-> canonical, cache |-> MapSet(kept, dataStr, canonical)]

RECURSIVE SubValues(_)
SubValues(v) ==
    {v} \cup (IF IsLeaf(v) THEN {}
              ELSE IF v.t = "arr" THEN UNION {SubValues(v.items[i]) : i \in 1..Len(v.items)}
              ELSE UNION {SubValues(v.pairs[i].v) : i \in 1..Len(v.pairs)})

\* lines 309-313: the Map after a call; it is emptied when it holds more
\* than CanonCacheLimit entries
CacheAfter(data, cache) ==
    LET new == {[key |-> Stringify(d), value |-> getCanonicalJson(d, cache)] :
                   d \in SubValues(data)}
    IN IF Cardinality(cache) > CanonCacheLimit THEN new ELSE cache \cup new

(***************************************************************************)
(* part_010, lines 208-218: the earlier _getCanonicalJson.  Arrays pass    *)
(* the method itself to map, so inside an element's call `this` is         *)
(* undefined: an element that is an array, or an object with a member,     *)
(* reads a property of undefined and throws a TypeError.                   *)
(***************************************************************************)
Thrown == [ok |-> FALSE, text |-> <<>>]

Returned(text) == [ok |-> TRUE, text |-> text]

RECURSIVE getCanonicalJsonUnbound(_, _)
getCanonicalJsonUnbound(data, thisBound) ==
    IF IsLeaf(data) THEN Returned(StringifyLeaf(data))
    ELSE IF data.t = "arr"
    THEN IF ~thisBound THEN Thrown
         ELSE LET rs == [i \in 1..Len(data.items) |->
                            getCanonicalJsonUnbound(data.items[i], FALSE)]
              IN IF \A i \in 1..Len(rs) : rs[i].ok
                 THEN Returned(LBracket \o Join([i \in 1..Len(rs) |-> rs[i].text], Comma)
                               \o RBracket)
                 ELSE Thrown
    ELSE IF Len(data.pairs) = 0 THEN Returned(LBrace \o RBrace)
    ELSE IF ~thisBound THEN Thrown
         ELSE LET keys == SortKeys(KeysOf(data))
                  rs == [i \in 1..Len(keys) |->
                            getCanonicalJsonUnbound(data.pairs[ValueOf(data, keys[i])].v, TRUE)]
              IN IF \A i \in 1..Len(rs) : rs[i].ok
                 THEN Returned(LBrace \o Join([i \in 1..Len(rs) |->
                                  Quote \o keys[i] \o Quote \o Colon \o rs[i].text], Comma)
                               \o RBrace)
                 ELSE Thrown

\* UTF-8 replaced by one byte per code unit, the high bits dropped
Utf8EncodeLatin1(text) == [i \in 1..Len(text) |-> text[i] % 256]

\* new TextEncoder().encode(text): UTF-8, for code units below 0x800
RECURSIVE Utf8Encode(_)
Utf8Encode(text) ==
    IF Len(text) = 0 THEN <<>>
    ELSE (IF text[1] < 128 THEN <<text[1]>>
          ELSE <<192 + (text[1] \div 64), 128 + (text[1] % 64)>>)
         \o Utf8Encode(Tail(text))

\* new TextDecoder().decode(bytes): a byte that starts no valid sequence
\* becomes U+FFFD
RECURSIVE Utf8Decode(_)
Utf8Decode(bytes) ==
    IF Len(bytes) = 0 THEN <<>>
    ELSE IF bytes[1] < 128 THEN <<bytes[1]>> \o Utf8Decode(Tail(bytes))
    ELSE IF /\ bytes[1] >= 194 /\ bytes[1] <= 223 /\ Len(bytes) >= 2
            /\ bytes[2] >= 128 /\ bytes[2] <= 191
    THEN <<((bytes[1] - 192) * 64) + (bytes[2] - 128)>> \o Utf8Decode(SubSeq(bytes, 3, Len(bytes)))
    ELSE <<65533>> \o Utf8Decode(Tail(bytes))

\* signTransaction(transaction, privateKey), lines 318-330, on the bytes it
\* signs: the UTF-8 bytes of the canonical JSON
signCanonical(transaction, privateKey, cache) ==
    [signer |-> privateKey, data |-> Utf8Encode(getCanonicalJson(transaction, cache))]

NoOut == [a |-> Thrown, b |-> Thrown, a0 |-> Thrown, b0 |-> Thrown, sigA |-> NoSig, sigB |-> NoSig]

\* the canonical-JSON variables while nothing is canonicalized
CanonRest ==
    /\ canonPc = "off"
    /\ canonA = JNull
    /\ canonB = JNull
    /\ canonicalJsonCache = {}
    /\ canonOut = NoOut

CanonInit ==
    /\ canonPc = "input"
    /\ canonA \in JsonInputs
    /\ canonB = JNull
    /\ canonicalJsonCache = {}
    /\ canonOut = NoOut

\* the same logical value is built again, possibly in another insertion order
BuildPeer ==
    /\ canonPc = "input"
    /\ canonB' \in {x \in JsonInputs : DeepEqual(canonA, x)}
    /\ canonPc' = "peer"
    /\ UNCHANGED <<canonA, canonicalJsonCache, canonOut>>
    /\ UNCHANGED notCanon

\* signTransaction(A, privateKey), lines 318-330
CanonicalizeA ==
    /\ canonPc = "peer"
    /\ canonOut' = [canonOut EXCEPT
                      !.a = Returned(getCanonicalJson(canonA, canonicalJsonCache)),
                      !.a0 = getCanonicalJsonUnbound(canonA, TRUE),
                      !.sigA = signCanonical(canonA, UserKeyPair.privateKey, canonicalJsonCache)]
    /\ canonicalJsonCache' = CacheAfter(canonA, canonicalJsonCache)
    /\ canonPc' = "first"
    /\ UNCHANGED <<canonA, canonB>>
    /\ UNCHANGED notCanon

\* signTransaction(B, privateKey), lines 318-330
CanonicalizeB ==
    /\ canonPc = "first"
    /\ canonOut' = [canonOut EXCEPT
                      !.b = Returned(getCanonicalJson(canonB, canonicalJsonCache)),
                      !.b0 = getCanonicalJsonUnbound(canonB, TRUE),
                      !.sigB = signCanonical(canonB, UserKeyPair.privateKey, canonicalJsonCache)]
    /\ canonicalJsonCache' = CacheAfter(canonB, canonicalJsonCache)
    /\ canonPc' = "done"
    /\ UNCHANGED <<canonA, canonB>>
    /\ UNCHANGED notCanon

CanonNext ==
    \/ BuildPeer
    \/ CanonicalizeA
    \/ CanonicalizeB

\* values handed to _getCanonicalJson one after the other: {}, {b: undefined},
\* {b: 1}, {b: 1, ab: "x"} and {ab: "x", b: 1}, [], [undefined], [null],
\* an array of the two two-member objects, {b: [null]}, 1 and "x"
MemoInputs ==
    LET b == <<98>>
        ab == <<97, 98>>
        x == JStr(<<120>>)
        two == JObj(<<[k |-> b, v |-> JNum(1)], [k |-> ab, v |-> x]>>)
        owt == JObj(<<[k |-> ab, v |-> x], [k |-> b, v |-> JNum(1)]>>)
    IN  {JObj(<<>>), JObj(<<[k |-> b, v |-> JUndefined]>>), JObj(<<[k |-> b, v |-> JNum(1)]>>),
         two, owt, JArr(<<>>), JArr(<<JUndefined>>), JArr(<<JNull>>), JArr(<<two, owt>>),
         JObj(<<[k |-> b, v |-> JArr(<<JNull>>)]>>), JNum(1), x}

\* the Map after CanonCacheLimit + 1 one-letter strings were canonicalized
FilledCache ==
    {[key |-> Stringify(JStr(<<c>>)), value |-> StringifyLeaf(JStr(<<c>>))] :
        c \in 200..(200 + CanonCacheLimit)}

\* the memo after some history of calls: empty, or filled beyond its limit
MemoInit ==
    /\ canonPc = "memo"
    /\ canonA = JNull
    /\ canonB = JNull
    /\ canonicalJsonCache \in {{}, FilledCache}
    /\ canonOut = NoOut

\* one call of _getCanonicalJson(data), lines 291-315; next to its result
\* the history keeps what the recursion gives without any Map
MemoCall ==
    /\ canonPc = "memo"
    /\ \E data \in MemoInputs :
          LET r == getCanonicalJsonMemo(data, canonicalJsonCache) IN
          /\ canonA' = data
          /\ canonOut' = [canonOut EXCEPT !.a = Returned(r.text),
                                          !.b = Returned(getCanonicalJson(data, {}))]
          /\ canonicalJsonCache' = r.cache
    /\ UNCHANGED <<canonPc, canonB>>
    /\ UNCHANGED notCanon

MemoNext ==
    \/ MemoCall

(***************************************************************************)
(*                      Session channel on the wire                        *)
(* encryptPayload and decryptResponse with their conversions: bytes are    *)
(* numbers 0..255, texts are sequences of UTF-16 code units.               *)
(***************************************************************************)
PadChar == <<61>>

\* BASE64_CHARS, the standard alphabet: the character of a 6-bit value
Base64Char(v) ==
    IF v < 26 THEN 65 + v
    ELSE IF v < 52 THEN 97 + (v - 26)
    ELSE IF v < 62 THEN 48 + (v - 52)
    ELSE IF v = 62 THEN 43
    ELSE 47

IsBase64Char(c) ==
    \/ c >= 65 /\ c <= 90
    \/ c >= 97 /\ c <= 122
    \/ c >= 48 /\ c <= 57
    \/ c = 43
    \/ c = 47

\* the 6-bit value of a character of the alphabet
Base64Value(c) ==
    IF c >= 65 /\ c <= 90 THEN c - 65
    ELSE IF c >= 97 /\ c <= 122 THEN (c - 97) + 26
    ELSE IF c >= 48 /\ c <= 57 THEN (c - 48) + 52
    ELSE IF c = 43 THEN 62
    ELSE 63

\* toBase64, lines 15-17: btoa(String.fromCharCode(...bytes))
RECURSIVE toBase64(_)
toBase64(bytes) ==
    IF Len(bytes) = 0 THEN <<>>
    ELSE IF Len(bytes) = 1
    THEN <<Base64Char(bytes[1] \div 4), Base64Char((bytes[1] % 4) * 16)>>
         \o PadChar \o PadChar
    ELSE IF Len(bytes) = 2
    THEN <<Base64Char(bytes[1] \div 4),
           Base64Char(((bytes[1] % 4) * 16) + (bytes[2] \div 16)),
           Base64Char((bytes[2] % 16) * 4)>> \o PadChar
    ELSE <<Base64Char(bytes[1] \div 4),
           Base64Char(((bytes[1] % 4) * 16) + (bytes[2] \div 16)),
           Base64Char(((bytes[2] % 16) * 4) + (bytes[3] \div 64)),
           Base64Char(bytes[3] % 64)>>
         \o toBase64(SubSeq(bytes, 4, Len(bytes)))

\* atob, step 1: ASCII whitespace (tab, LF, FF, CR, space) is removed
IsNotAsciiWhitespace(c) == c \notin {9, 10, 12, 13, 32}

\* atob, step 2: one or two padding characters are dropped from a text
\* whose length is a multiple of four
StripPadding(text) ==
    IF Len(text) % 4 # 0 \/ Len(text) = 0 THEN text
    ELSE IF text[Len(text)] # PadChar[1] THEN text
    ELSE IF text[Len(text) - 1] # PadChar[1] THEN SubSeq(text, 1, Len(text) - 1)
    ELSE SubSeq(text, 1, Len(text) - 2)

\* atob, the bytes of a run of alphabet characters: the bits left over
\* after the last whole byte are discarded, whatever they are
RECURSIVE DecodeSextets(_)
DecodeSextets(text) ==
    LET v(i) == Base64Value(text[i]) IN
    IF Len(text) < 2 THEN <<>>
    ELSE IF Len(text) = 2 THEN <<(v(1) * 4) + (v(2) \div 16)>>
    ELSE IF Len(text) = 3
    THEN <<(v(1) * 4) + (v(2) \div 16), ((v(2) % 16) * 16) + (v(3) \div 4)>>
    ELSE <<(v(1) * 4) + (v(2) \div 16), ((v(2) % 16) * 16) + (v(3) \div 4),
           ((v(3) % 4) * 64) + v(4)>>
         \o DecodeSextets(SubSeq(text, 5, Len(text)))

\* fromBase64, lines 19-21: Uint8Array.from(atob(text), c => c.charCodeAt(0));
\* atob throws for a character outside the alphabet and for a length that
\* leaves one character over
fromBase64(text) ==
    LET data == StripPadding(SelectSeq(text, IsNotAsciiWhitespace)) IN
    IF Len(data) % 4 = 1 \/ \E i \in 1..Len(data) : ~IsBase64Char(data[i])
    THEN [ok |-> FALSE, bytes |-> <<>>]
    ELSE [ok |-> TRUE, bytes |-> DecodeSextets(data)]

ParseFailure == [ok |-> FALSE, v |-> JNull, next |-> 0]

\* the index of the first quote at or after i, 0 when there is none
RECURSIVE ClosingQuote(_, _)
ClosingQuote(text, i) ==
    IF i > Len(text) THEN 0
    ELSE IF text[i] = Quote[1] THEN i
    ELSE ClosingQuote(text, i + 1)

\* JSON.parse, one value starting at index i: null, a one-digit number, a
\* string without escapes, an array, an object
RECURSIVE ParseValue(_, _), ParseItems(_, _, _), ParseMembers(_, _, _)
ParseValue(text, i) ==
    IF i > Len(text) THEN ParseFailure
    ELSE IF text[i] = NullText[1]
    THEN IF i + 3 <= Len(text) /\ SubSeq(text, i, i + 3) = NullText
         THEN [ok |-> TRUE, v |-> JNull, next |-> i + 4]
         ELSE ParseFailure
    ELSE IF text[i] >= 48 /\ text[i] <= 57
    THEN [ok |-> TRUE, v |-> JNum(text[i] - 48), next |-> i + 1]
    ELSE IF text[i] = Quote[1]
    THEN LET j == ClosingQuote(text, i + 1) IN
         IF j = 0 THEN ParseFailure
         ELSE [ok |-> TRUE, v |-> JStr(SubSeq(text, i + 1, j - 1)), next |-> j + 1]
    ELSE IF text[i] = LBracket[1]
    THEN IF i + 1 <= Len(text) /\ text[i + 1] = RBracket[1]
         THEN [ok |-> TRUE, v |-> JArr(<<>>), next |-> i + 2]
         ELSE ParseItems(text, i + 1, <<>>)
    ELSE IF text[i] = LBrace[1]
    THEN IF i + 1 <= Len(text) /\ text[i + 1] = RBrace[1]
         THEN [ok |-> TRUE, v |-> JObj(<<>>), next |-> i + 2]
         ELSE ParseMembers(text, i + 1, <<>>)
    ELSE ParseFailure

ParseItems(text, i, acc) ==
    LET r == ParseValue(text, i) IN
    IF ~r.ok \/ r.next > Len(text) THEN ParseFailure
    ELSE IF text[r.next] = Comma[1] THEN ParseItems(text, r.next + 1, Append(acc, r.v))
    ELSE IF text[r.next] = RBracket[1]
    THEN [ok |-> TRUE, v |-> JArr(Append(acc, r.v)), next |-> r.next + 1]
    ELSE ParseFailure

ParseMembers(text, i, acc) ==
    LET k == ParseValue(text, i) IN
    IF ~k.ok \/ k.v.t # "str" \/ k.next > Len(text) \/ text[k.next] # Colon[1]
    THEN ParseFailure
    ELSE LET r == ParseValue(text, k.next + 1)
             pairs == Append(acc, [k |-> k.v.s, v |-> r.v])
         IN
         IF ~r.ok \/ r.next > Len(text) THEN ParseFailure
         ELSE IF text[r.next] = Comma[1] THEN ParseMembers(text, r.next + 1, pairs)
         ELSE IF text[r.next] = RBrace[1]
         THEN [ok |-> TRUE, v |-> JObj(pairs), next |-> r.next + 1]
         ELSE ParseFailure

\* JSON.parse(text): the whole text is one value, or SyntaxError
JsonParse(text) ==
    LET r == ParseValue(text, 1) IN
    IF r.ok /\ r.next = Len(text) + 1 THEN [ok |-> TRUE, v |-> r.v]
    ELSE [ok |-> FALSE, v |-> JNull]

\* session keys, as deriveSessionKey returns them
SessionKeys == {17, 200}

\* crypto.getRandomValues(new Uint8Array(12))
SessionIvs == {<<0, 1, 2, 3, 4, 5, 6, 7, 8, 9, 10, 11>>,
               <<255, 254, 253, 252, 251, 250, 249, 248, 247, 246, 245, 244>>}

RECURSIVE SumBytes(_)
SumBytes(bytes) == IF Len(bytes) = 0 THEN 0 ELSE bytes[1] + SumBytes(Tail(bytes))

\* the authentication tag of a ciphertext under a key and an iv: it binds
\* all three (three bytes here, sixteen in AES-GCM)
GcmTag(key, iv, body) == <<key % 256, SumBytes(iv) % 256, SumBytes(body) % 256>>

\* crypto.subtle.encrypt({ name: 'AES-GCM', iv }, key, plaintext): a key
\* stream from key and iv, followed by the tag
GcmSeal(key, iv, plaintext) ==
    LET body == [i \in 1..Len(plaintext) |-> (plaintext[i] + key + SumBytes(iv) + i) % 256]
    IN  body \o GcmTag(key, iv, body)

\* crypto.subtle.decrypt({ name: 'AES-GCM', iv }, key, sealed): OperationError
\* unless the tag is the one this key and iv give for this ciphertext
GcmOpen(key, iv, sealed) ==
    LET body == SubSeq(sealed, 1, Len(sealed) - 3) IN
    IF Len(sealed) < 3 \/ Len(iv) = 0
       \/ SubSeq(sealed, Len(sealed) - 2, Len(sealed)) # GcmTag(key, iv, body)
    THEN [ok |-> FALSE, bytes |-> <<>>]
    ELSE [ok |-> TRUE,
          bytes |-> [i \in 1..Len(body) |->
                        (body[i] + 65536 - (key + SumBytes(iv) + i)) % 256]]

\* encryptPayload(payload, sessionKey), lines 259-271, with the iv it drew
encryptPayloadWire(payload, sessionKey, iv) ==
    [ciphertext |-> toBase64(GcmSeal(sessionKey, iv, Utf8Encode(Stringify(payload)))),
     iv |-> toBase64(iv)]

\* decryptResponse(encryptedResponse, sessionKey), lines 273-282
decryptResponseWire(encryptedResponse, sessionKey) ==
    LET iv == fromBase64(encryptedResponse.iv)
        ciphertext == fromBase64(encryptedResponse.ciphertext)
        decrypted == GcmOpen(sessionKey, iv.bytes, ciphertext.bytes)
        parsed == JsonParse(Utf8Decode(decrypted.bytes))
    IN  IF ~iv.ok \/ ~ciphertext.ok
        THEN [ok |-> FALSE, v |-> JNull, error |-> "InvalidCharacterError"]
        ELSE IF ~decrypted.ok
        THEN [ok |-> FALSE, v |-> JNull, error |-> "OperationError"]
        ELSE IF ~parsed.ok
        THEN [ok |-> FALSE, v |-> JNull, error |-> "SyntaxError"]
        ELSE [ok |-> TRUE, v |-> parsed.v, error |-> "none"]

\* JSON-compatible plaintext objects: null, number and string members (one
\* string outside ASCII), a nested array, a nested object
SessionLeaves == {JNull, JNum(7), JStr(<<>>), JStr(<<233, 120>>)}

SessionValues ==
    SessionLeaves \cup {JArr(<<>>), JArr(<<JNum(7), JNull>>),
                        JObj(<<[k |-> <<98>>, v |-> JStr(<<233, 120>>)]>>)}

SessionPlaintexts ==
    {JObj(<<>>)}
    \cup {JObj(<<[k |-> k1, v |-> v1]>>) : k1 \in CanonKeys, v1 \in SessionValues}
    \cup UNION {{JObj(<<[k |-> kk[1], v |-> v1], [k |-> kk[2], v |-> v2]>>) :
                    v1 \in SessionValues, v2 \in SessionValues} :
                kk \in {q \in CanonKeys \X CanonKeys : q[1] # q[2]}}

NoSessWire == [ciphertext |-> <<>>, iv |-> <<>>]

NoSessOut == [ok |-> FALSE, v |-> JNull, error |-> "none"]

SessRest ==
    /\ sessPc = "off"
    /\ sessPayload = JNull
    /\ sessKey = 0
    /\ sessSealed = NoSessWire
    /\ sessWire = NoSessWire
    /\ sessUsedKey = 0
    /\ sessOut = NoSessOut

SessInit ==
    /\ sessPc = "input"
    /\ sessPayload \in SessionPlaintexts
    /\ sessKey \in SessionKeys
    /\ sessSealed = NoSessWire
    /\ sessWire = NoSessWire
    /\ sessUsedKey = 0
    /\ sessOut = NoSessOut

\* encryptPayload(sessPayload, sessKey) with a fresh iv
EncryptPayload ==
    /\ sessPc = "input"
    /\ \E iv \in SessionIvs :
          /\ sessSealed' = encryptPayloadWire(sessPayload, sessKey, iv)
          /\ sessWire' = sessSealed'
    /\ sessPc' = "sent"
    /\ UNCHANGED <<sessPayload, sessKey, sessUsedKey, sessOut>>
    /\ UNCHANGED notSess

\* the character that replaces c when the text is modified in transit
OtherChar(c) ==
    IF IsBase64Char(c) THEN Base64Char((Base64Value(c) + 1) % 64) ELSE Base64Char(0)

\* one character of the ciphertext or of the iv is modified in transit
ModifyInTransit ==
    /\ sessPc = "sent"
    /\ sessWire = sessSealed
    /\ \E field \in {"ciphertext", "iv"} :
          \E j \in 1..Len(sessWire[field]) :
             sessWire' = [sessWire EXCEPT ![field][j] = OtherChar(@)]
    /\ UNCHANGED <<sessPc, sessPayload, sessKey, sessSealed, sessUsedKey, sessOut>>
    /\ UNCHANGED notSess

\* decryptResponse(sessWire, key), with the session key or with another one
DecryptResponse ==
    /\ sessPc = "sent"
    /\ \E key \in SessionKeys :
          /\ sessUsedKey' = key
          /\ sessOut' = decryptResponseWire(sessWire, key)
    /\ sessPc' = "done"
    /\ UNCHANGED <<sessPayload, sessKey, sessSealed, sessWire>>
    /\ UNCHANGED notSess

SessNext ==
    \/ EncryptPayload
    \/ ModifyInTransit
    \/ DecryptResponse

(***************************************************************************)
(*                        PIN-login AuthProvider                           *)
(***************************************************************************)
MaxChecks == 2

AuthSources == {"part_006", "part_007"}

\* "-----BEGIN PUBLIC KEY-----" and "-----END PUBLIC KEY-----"
PemHeaderText ==
    <<45, 45, 45, 45, 45, 66, 69, 71, 73, 78, 32, 80, 85, 66, 76, 73, 67, 32, 75, 69, 89,
      45, 45, 45, 45, 45>>

PemFooterText ==
    <<45, 45, 45, 45, 45, 69, 78, 68, 32, 80, 85, 66, 76, 73, 67, 32, 75, 69, 89,
      45, 45, 45, 45, 45>>

\* the SPKI bytes of the user's public key
SpkiDer == <<48, 118, 48, 16>>

\* SecureKeyManager.exportPublicKeyAsPem, as text: header, LF, Base64, LF,
\* footer
exportPublicKeyAsPemText(spki) ==
    PemHeaderText \o <<10>> \o toBase64(spki) \o <<10>> \o PemFooterText

\* localStorage.getItem of an item that is not there
NoItem == <<>>

\* crypto.subtle.importKey('spki', bytes, ...) succeeds on the SPKI of a key
ImportSpkiOk(bytes) == bytes = SpkiDer

RECURSIVE IndexOf(_, _, _)
IndexOf(text, sub, i) ==
    IF i + Len(sub) - 1 > Len(text) THEN 0
    ELSE IF SubSeq(text, i, i + Len(sub) - 1) = sub THEN i
    ELSE IndexOf(text, sub, i + 1)

\* text.replace(sub, ''): the first occurrence is removed
ReplaceFirst(text, sub) ==
    LET i == IndexOf(text, sub, 1) IN
    IF i = 0 THEN text
    ELSE SubSeq(text, 1, i - 1) \o SubSeq(text, i + Len(sub), Len(text))

\* part_006 login, lines 111-146: the stored PEM is stripped of its header,
\* footer and whitespace, decoded and imported; any failure leaves no key
StoredKeyImported006(stored) ==
    /\ stored # NoItem
    /\ LET pemContents ==
               SelectSeq(ReplaceFirst(ReplaceFirst(stored, PemHeaderText), PemFooterText),
                         IsNotAsciiWhitespace)
           binaryDer == fromBase64(pemContents)
       IN  binaryDer.ok /\ ImportSpkiOk(binaryDer.bytes)

\* part_007 login, lines 77-83: atob of the stored text as it is (of "null"
\* when there is none), then importKey
StoredKeyImported007(stored) ==
    LET binaryDer == fromBase64(IF stored = NoItem THEN NullText ELSE stored)
    IN  binaryDer.ok /\ ImportSpkiOk(binaryDer.bytes)

AuthPins == Pins \cup {"12"}

\* pin.length < 4
ShortPins == {"12"}

ErrShortPin == <<"PIN must be at least 4 digits long.">>
ErrNoEncryptedKey == <<"No encrypted key found. Please complete registration first.">>
ErrLoginGeneric == <<"Invalid PIN or authentication failed">>
ErrImport == <<"InvalidCharacterError">>
ErrRegistration == <<"Registration failed">>
ErrStatus == <<"Failed to check authentication status">>

NoView == [userPublicKey |-> NoItem, pinIsSet |-> FALSE, error |-> <<>>]

NoLocal == [userPublicKey |-> NoItem, pinIsSet |-> "none"]

NoLogin == [pc |-> "idle", pin |-> "none", record |-> Absent, args |-> <<>>,
            decrypted |-> FALSE, result |-> "none", error |-> <<>>]

NoRegister == [pc |-> "idle", pin |-> "none"]

AuthRest ==
    /\ authSource = "none"
    /\ authDb = Absent
    /\ authDbDeleting = FALSE
    /\ authLocal = NoLocal
    /\ isAuthenticated = FALSE
    /\ unlockedKeyPair = NoKeyPair
    /\ authView = NoView
    /\ statusChecks = <<>>
    /\ loginCall = NoLogin
    /\ registerCall = NoRegister

\* the provider is mounted: its state is the useState defaults and the
\* effect has started checkAuthStatus, whatever the device holds
AuthInit ==
    /\ authSource \in AuthSources
    /\ authDb \in {Absent} \cup {encryptPrivateKey(UserKeyPair.privateKey, pin, 1, 1) :
                                    pin \in Pins}
    /\ authDbDeleting = FALSE
    /\ authLocal \in [userPublicKey : {NoItem, exportPublicKeyAsPemText(SpkiDer)},
                      pinIsSet : {"none", "true"}]
    /\ isAuthenticated = FALSE
    /\ unlockedKeyPair = NoKeyPair
    /\ authView = NoView
    /\ statusChecks = <<FALSE>>
    /\ loginCall = NoLogin
    /\ registerCall = NoRegister

\* the effect of lines 18-56 runs again when unlockedKeyPair changed: a new
\* checkAuthStatus whose closure holds the new value
ChecksAfter(changed, newPair) ==
    IF changed THEN Append(statusChecks, newPair # NoKeyPair) ELSE statusChecks

\* checkAuthStatus, lines 25-44: getEncryptedKey resolved
StatusCheckResumes ==
    /\ Len(statusChecks) > 0
    /\ LET held == Head(statusChecks)
           storedPublicKey == authLocal.userPublicKey
       IN  IF authDb # Absent /\ storedPublicKey # NoItem /\ authLocal.pinIsSet = "true"
           THEN /\ authView' = [authView EXCEPT !.pinIsSet = TRUE,
                                                !.userPublicKey = storedPublicKey]
                /\ isAuthenticated' = held
           ELSE IF authDb # Absent /\ storedPublicKey # NoItem
           THEN /\ authView' = [authView EXCEPT !.pinIsSet = FALSE,
                                                !.userPublicKey = storedPublicKey]
                /\ isAuthenticated' = FALSE
           ELSE /\ authView' = [authView EXCEPT !.pinIsSet = FALSE]
                /\ isAuthenticated' = FALSE
    /\ statusChecks' = Tail(statusChecks)
    /\ UNCHANGED <<authSource, authDb, authDbDeleting, authLocal, unlockedKeyPair,
                   loginCall, registerCall>>
    /\ UNCHANGED notAuth

\* checkAuthStatus, lines 45-49: getEncryptedKey rejected
StatusCheckFails ==
    /\ Len(statusChecks) > 0
    /\ authView' = [authView EXCEPT !.pinIsSet = FALSE, !.error = ErrStatus]
    /\ isAuthenticated' = FALSE
    /\ statusChecks' = Tail(statusChecks)
    /\ UNCHANGED <<authSource, authDb, authDbDeleting, authLocal, unlockedKeyPair,
                   loginCall, registerCall>>
    /\ UNCHANGED notAuth

\* login's catch: part_006 lines 196-201 report the error's message and
\* rethrow, part_007 lines 92-97 report a fixed message and return false
LoginFails(call, err) ==
    /\ loginCall' = [call EXCEPT
                       !.pc = "done",
                       !.result = IF authSource = "part_006" THEN "rejected" ELSE "false",
                       !.error = err]
    /\ authView' = [authView EXCEPT
                      !.error = IF authSource = "part_006" THEN err ELSE ErrLoginGeneric]
    /\ isAuthenticated' = FALSE
    /\ unlockedKeyPair' = NoKeyPair
    /\ statusChecks' = ChecksAfter(unlockedKeyPair # NoKeyPair, NoKeyPair)

\* login(pin) up to its first await: part_006 lines 82-91, part_007 58-62
LoginStart ==
    /\ loginCall.pc \in {"idle", "done"}
    /\ Len(statusChecks) < MaxChecks
    /\ \E pin \in AuthPins :
          IF authSource = "part_006" /\ pin \in ShortPins
          THEN LoginFails([NoLogin EXCEPT !.pin = pin], ErrShortPin)
          ELSE /\ loginCall' = [NoLogin EXCEPT !.pc = "getKey", !.pin = pin]
               /\ authView' = [authView EXCEPT !.error = <<>>]
               /\ UNCHANGED <<isAuthenticated, unlockedKeyPair, statusChecks>>
    /\ UNCHANGED <<authSource, authDb, authDbDeleting, authLocal, registerCall>>
    /\ UNCHANGED notAuth

\* login: getEncryptedKey resolved (part_006 lines 91-94, part_007 62-65)
LoginKeyRead ==
    /\ loginCall.pc = "getKey"
    /\ Len(statusChecks) < MaxChecks
    /\ IF authDb = Absent
       THEN LoginFails(loginCall, ErrNoEncryptedKey)
       ELSE /\ loginCall' = [loginCall EXCEPT !.pc = "decrypt", !.record = authDb]
            /\ UNCHANGED <<authView, isAuthenticated, unlockedKeyPair, statusChecks>>
    /\ UNCHANGED <<authSource, authDb, authDbDeleting, authLocal, registerCall>>
    /\ UNCHANGED notAuth

\* login: decryptPrivateKey settled, the public key is reconstructed and
\* the state updated (part_006 lines 97-194, part_007 lines 67-90)
LoginDecrypted ==
    /\ loginCall.pc = "decrypt"
    /\ Len(statusChecks) < MaxChecks
    /\ LET rec == loginCall.record
           res == decryptPrivateKey(rec.encrypted, loginCall.pin, rec.salt, rec.iv)
           called == [loginCall EXCEPT
                        !.args = <<rec.encrypted, loginCall.pin, rec.salt, rec.iv>>,
                        !.decrypted = (res.outcome = "ok")]
           storedPublicKey == IF authView.userPublicKey # NoItem
                              THEN authView.userPublicKey
                              ELSE authLocal.userPublicKey
           keyPair == [privateKey |-> res.key, publicKey |-> PublicHalf(res.key)]
           succeeds == /\ loginCall' = [called EXCEPT !.pc = "done", !.result = "true"]
                       /\ unlockedKeyPair' = keyPair
                       /\ isAuthenticated' = TRUE
                       /\ statusChecks' = ChecksAfter(TRUE, keyPair)
       IN  IF res.outcome # "ok"
           THEN /\ LoginFails(called, res.error)
                /\ UNCHANGED authLocal
           ELSE IF authSource = "part_006"
           THEN IF StoredKeyImported006(storedPublicKey)
                THEN succeeds /\ UNCHANGED <<authView, authLocal>>
                ELSE /\ succeeds
                     /\ authLocal' = [authLocal EXCEPT
                                        !.userPublicKey = exportPublicKeyAsPemText(SpkiDer)]
                     /\ authView' = [authView EXCEPT
                                       !.userPublicKey = exportPublicKeyAsPemText(SpkiDer)]
           ELSE IF StoredKeyImported007(storedPublicKey)
                THEN succeeds /\ UNCHANGED <<authView, authLocal>>
                ELSE /\ LoginFails(called, ErrImport)
                     /\ UNCHANGED authLocal
    /\ UNCHANGED <<authSource, authDb, authDbDeleting, registerCall>>
    /\ UNCHANGED notAuth

\* register(keyPair, pin) up to its first await (part_006 lines 208-213)
RegisterStart ==
    /\ registerCall.pc = "idle"
    /\ \E pin \in Pins : registerCall' = [pc |-> "store", pin |-> pin]
    /\ authView' = [authView EXCEPT !.error = <<>>]
    /\ UNCHANGED <<authSource, authDb, authDbDeleting, authLocal, isAuthenticated,
                   unlockedKeyPair, statusChecks, loginCall>>
    /\ UNCHANGED notAuth

\* register: the encrypted key is stored, the public key exported and kept,
\* the state updated (part_006 lines 213-227, part_007 lines 110-125)
RegisterStored ==
    /\ registerCall.pc = "store"
    /\ Len(statusChecks) < MaxChecks
    /\ authDb' = encryptPrivateKey(UserKeyPair.privateKey, registerCall.pin, 1, 1)
    /\ authLocal' = [userPublicKey |-> exportPublicKeyAsPemText(SpkiDer),
                     pinIsSet |-> "true"]
    /\ authView' = [authView EXCEPT !.userPublicKey = exportPublicKeyAsPemText(SpkiDer),
                                    !.pinIsSet = TRUE]
    /\ unlockedKeyPair' = UserKeyPair
    /\ isAuthenticated' = TRUE
    /\ statusChecks' = ChecksAfter(unlockedKeyPair # UserKeyPair, UserKeyPair)
    /\ registerCall' = NoRegister
    /\ UNCHANGED <<authSource, authDbDeleting, loginCall>>
    /\ UNCHANGED notAuth

\* register's catch (part_006 lines 229-232): encryption or storing failed
RegisterFails ==
    /\ registerCall.pc = "store"
    /\ authView' = [authView EXCEPT !.error = ErrRegistration]
    /\ registerCall' = NoRegister
    /\ UNCHANGED <<authSource, authDb, authDbDeleting, authLocal, isAuthenticated,
                   unlockedKeyPair, statusChecks, loginCall>>
    /\ UNCHANGED notAuth

\* logout: part_006 lines 239-253 clear the state only, part_007 lines
\* 134-150 also pinIsSet and the two localStorage items
Logout ==
    /\ Len(statusChecks) < MaxChecks
    /\ unlockedKeyPair' = NoKeyPair
    /\ isAuthenticated' = FALSE
    /\ IF authSource = "part_006"
       THEN /\ authView' = [authView EXCEPT !.userPublicKey = NoItem, !.error = <<>>]
            /\ UNCHANGED authLocal
       ELSE /\ authView' = NoView
            /\ authLocal' = NoLocal
    /\ statusChecks' = ChecksAfter(unlockedKeyPair # NoKeyPair, NoKeyPair)
    /\ UNCHANGED <<authSource, authDb, authDbDeleting, loginCall, registerCall>>
    /\ UNCHANGED notAuth

\* markPinAsSet (part_006 lines 255-258)
MarkPinAsSet ==
    /\ authLocal.pinIsSet # "true" \/ ~authView.pinIsSet
    /\ authLocal' = [authLocal EXCEPT !.pinIsSet = "true"]
    /\ authView' = [authView EXCEPT !.pinIsSet = TRUE]
    /\ UNCHANGED <<authSource, authDb, authDbDeleting, isAuthenticated, unlockedKeyPair,
                   statusChecks, loginCall, registerCall>>
    /\ UNCHANGED notAuth

\* deleteAccount (part_006 lines 271-297): the database deletion is only
\* requested, the localStorage items and the state are cleared at once
DeleteAccount ==
    /\ Len(statusChecks) < MaxChecks
    /\ authDb # Absent \/ authLocal # NoLocal \/ unlockedKeyPair # NoKeyPair
    /\ authDbDeleting' = TRUE
    /\ authLocal' = NoLocal
    /\ unlockedKeyPair' = NoKeyPair
    /\ isAuthenticated' = FALSE
    /\ authView' = NoView
    /\ statusChecks' = ChecksAfter(unlockedKeyPair # NoKeyPair, NoKeyPair)
    /\ UNCHANGED <<authSource, authDb, loginCall, registerCall>>
    /\ UNCHANGED notAuth

\* the deleteDatabase request of deleteAccount completes
DatabaseDeleted ==
    /\ authDbDeleting
    /\ authDb' = Absent
    /\ authDbDeleting' = FALSE
    /\ UNCHANGED <<authSource, authLocal, isAuthenticated, unlockedKeyPair, authView,
                   statusChecks, loginCall, registerCall>>
    /\ UNCHANGED notAuth

AuthNext ==
    \/ StatusCheckResumes
    \/ StatusCheckFails
    \/ LoginStart
    \/ LoginKeyRead
    \/ LoginDecrypted
    \/ RegisterStart
    \/ RegisterStored
    \/ RegisterFails
    \/ Logout
    \/ MarkPinAsSet
    \/ DeleteAccount
    \/ DatabaseDeleted

(***************************************************************************)
(*            Token-based AuthProvider (AuthContext.jsx)                   *)
(***************************************************************************)
\* the members of the object exported as default by secureApi.js (lines
\* 266-275); cryptoLogin and logout are named exports of the module only
SecureApiDefaultExport == {"post", "get", "put", "delete"}

ErrNotAFunction == <<"TypeError: secureApi.logout is not a function">>

AccessTokens == {"a0", "a1"}
RefreshTokens == {"r0", "r1"}

TokStorages ==
    [accessToken : {"none"} \cup AccessTokens,
     refreshToken : {"none"} \cup RefreshTokens,
     userPublicKey : {"none", "pem"},
     encryptedPrivateKey : {"none"},
     pinIsSet : {"none", "true"}]

NoTokState == [isAuthenticated |-> FALSE, unlockedKeyPair |-> NoKeyPair,
               pinIsSet |-> FALSE, error |-> <<>>]

TokRest ==
    /\ tokStorage = [accessToken |-> "none", refreshToken |-> "none",
                     userPublicKey |-> "none", encryptedPrivateKey |-> "none",
                     pinIsSet |-> "none"]
    /\ tokState = NoTokState
    /\ tokLast = "none"
    /\ tokThrown = <<>>

\* the provider is mounted and its two effects (lines 14-37) have run
TokInit ==
    /\ tokStorage \in TokStorages
    /\ tokState = [NoTokState EXCEPT
                     !.isAuthenticated = (tokStorage.refreshToken # "none"),
                     !.pinIsSet = (tokStorage.pinIsSet = "true")]
    /\ tokLast = "mount"
    /\ tokThrown = <<>>

\* login(accessToken, refreshToken), lines 38-44
TokLogin ==
    /\ \E a \in AccessTokens, r \in RefreshTokens :
          tokStorage' = [tokStorage EXCEPT !.accessToken = a, !.refreshToken = r]
    /\ tokState' = [tokState EXCEPT !.isAuthenticated = TRUE, !.error = <<>>]
    /\ tokLast' = "login"
    /\ tokThrown' = <<>>
    /\ UNCHANGED notTok

\* setUnlockedKeyPair, handed out to the Login page (line 71)
TokSetUnlockedKeyPair ==
    /\ \E kp \in {NoKeyPair, UserKeyPair} :
          tokState' = [tokState EXCEPT !.unlockedKeyPair = kp]
    /\ tokLast' = "setUnlockedKeyPair"
    /\ tokThrown' = <<>>
    /\ UNCHANGED tokStorage
    /\ UNCHANGED notTok

\* markPinAsSet, lines 58-61
TokMarkPinAsSet ==
    /\ tokStorage' = [tokStorage EXCEPT !.pinIsSet = "true"]
    /\ tokState' = [tokState EXCEPT !.pinIsSet = TRUE]
    /\ tokLast' = "markPinAsSet"
    /\ tokThrown' = <<>>
    /\ UNCHANGED notTok

\* logout, lines 46-56: secureApi.logout() is called on the default export
\* first; calling a member the object does not have throws before any of
\* the state updates that follow
TokLogout ==
    /\ IF "logout" \in SecureApiDefaultExport
       THEN /\ tokStorage' = logout(tokStorage)
            /\ tokState' = NoTokState
            /\ tokThrown' = <<>>
       ELSE /\ tokThrown' = ErrNotAFunction
            /\ UNCHANGED <<tokStorage, tokState>>
    /\ tokLast' = "logout"
    /\ UNCHANGED notTok

TokNext ==
    \/ TokLogin
    \/ TokSetUnlockedKeyPair
    \/ TokMarkPinAsSet
    \/ TokLogout

(***************************************************************************)
(*                             cryptoLogin                                 *)
(***************************************************************************)
MaxLogins == 3

ErrNoTokens == <<"Login response did not include the required tokens.">>
ErrLoginFailed == <<"Login failed.">>
ErrLoginProcess == <<"Failed to process login error.">>
ErrSign == <<"TypeError: Cannot read properties of undefined">>

NoClOut == [outcome |-> "none", error |-> <<>>, value |-> NoResponse]

\* the module and the browser before the first cryptoLogin
ClInit ==
    /\ clPc = "idle"
    /\ clKeyPair = NoKeyPair
    /\ clSession = NoSession
    /\ clOut = NoClOut
    /\ clStorage = EmptyStorage
    /\ clServerPublicKey = NoKey
    /\ clRuns = 0

\* the PEM text stored for a public key (line 211)
ClPublicKeyPem(publicKey) == "pem:" \o publicKey

\* a response accepted on its access token alone
HasAccessOnly(resp) == resp.access # "none"

\* line 254: decryptedResponse.access && decryptedResponse.refresh
HasBothTokens(resp) == resp.access # "none" /\ resp.refresh # "none"

ClRejects(err) ==
    /\ clPc' = "done"
    /\ clOut' = [outcome |-> "rejected", error |-> err, value |-> NoResponse]
    /\ UNCHANGED clStorage

\* cryptoLogin, lines 242-249: the error thrown for a non-ok status
ClErrorResponseMessage(s, body, sessionKey, opMsg) ==
    LET inner == IF decryptResponseOk(body, sessionKey)
                 THEN <<StatusTag(s)>> \o
                      (IF decryptResponse(body, sessionKey).error # "none"
                       THEN <<decryptResponse(body, sessionKey).error>>
                       ELSE ErrLoginFailed)
                 ELSE opMsg
    IN <<StatusTag(s)>> \o OrElse(inner, ErrLoginProcess)

\* cryptoLogin(client_ecdsa_keypair), lines 200-204: getServerPublicKey
\* from the cache or by a fetch
ClStart ==
    /\ clPc \in {"idle", "done"}
    /\ clRuns < MaxLogins
    /\ clRuns' = clRuns + 1
    /\ \E kp \in {UserKeyPair, NoKeyPair} : clKeyPair' = kp
    /\ clPc' = IF clServerPublicKey # NoKey THEN "sign" ELSE "keyFetch"
    /\ clOut' = NoClOut
    /\ clSession' = NoSession
    /\ UNCHANGED <<clStorage, clServerPublicKey>>
    /\ UNCHANGED notCl

\* getServerPublicKey, lines 11-18: the fetch of the public-key endpoint
\* settles
ClKeyFetched ==
    /\ clPc = "keyFetch"
    /\ \/ /\ \E e \in KeyFetchFailures : ClRejects(e)
          /\ UNCHANGED clServerPublicKey
       \/ /\ \E k \in ServerKeys :
                clServerPublicKey' = importServerPublicKey(exportPublicKeyAsPem(k))
          /\ clPc' = "sign"
          /\ UNCHANGED <<clOut, clStorage>>
    /\ UNCHANGED <<clKeyPair, clSession, clRuns>>
    /\ UNCHANGED notCl

\* cryptoLogin, lines 207-238: the challenge is signed, the session key
\* derived, the payload encrypted and posted
ClPosted ==
    /\ clPc = "sign"
    /\ IF ~HasUnlockedKeyPair(clKeyPair)
       THEN ClRejects(ErrSign) /\ UNCHANGED clSession
       ELSE /\ clSession' = deriveSessionKey(Fresh(clRuns, 1), clServerPublicKey)
            /\ clPc' = "awaitResp"
            /\ UNCHANGED <<clOut, clStorage>>
    /\ UNCHANGED <<clKeyPair, clServerPublicKey, clRuns>>
    /\ UNCHANGED notCl

ClResponseBodies ==
    {encryptPayload(pt, clSession, NoEph) : pt \in ResponsePlaintexts}
    \cup {encryptPayload(NoResponse, NoSession, NoEph)}

\* cryptoLogin, lines 230-263: the POST settles
ClResponse ==
    /\ clPc = "awaitResp"
    /\ \/ \E e \in GatewayFailures : ClRejects(e)
       \/ \E s \in Statuses, b \in ClResponseBodies, m \in OperationErrorMessages :
            IF ~ResponseOk(s)
            THEN ClRejects(ClErrorResponseMessage(s, b, clSession, m))
            ELSE IF ~decryptResponseOk(b, clSession)
            THEN ClRejects(m)
            ELSE IF HasBothTokens(decryptResponse(b, clSession))
            THEN /\ clStorage' =
                      [clStorage EXCEPT
                         !.accessToken = decryptResponse(b, clSession).access,
                         !.refreshToken = decryptResponse(b, clSession).refresh,
                         !.userPublicKey = ClPublicKeyPem(clKeyPair.publicKey)]
                 /\ clPc' = "done"
                 /\ clOut' = [outcome |-> "resolved", error |-> <<>>,
                              value |-> decryptResponse(b, clSession)]
            ELSE ClRejects(ErrNoTokens)
    /\ UNCHANGED <<clKeyPair, clSession, clServerPublicKey, clRuns>>
    /\ UNCHANGED notCl

\* logout(), lines 185-192, called between or during logins
ClLogout ==
    /\ clStorage # EmptyStorage
    /\ clStorage' = logout(clStorage)
    /\ UNCHANGED <<clPc, clKeyPair, clSession, clOut, clServerPublicKey, clRuns>>
    /\ UNCHANGED notCl

ClNext ==
    \/ ClStart
    \/ ClKeyFetched
    \/ ClPosted
    \/ ClResponse
    \/ ClLogout

(***************************************************************************)
(*                          PrivateKeyProvider                             *)
(***************************************************************************)
MaxRequests == 3
MaxUnlocks == 2

PromiseIds == 1..MaxRequests

\* pendingResolve is null
NoResolve == 0

\* the record SecureKeyManager.getPrivateKey reads: the user's key under
\* the PIN "4242"
PkStoredRecord == encryptPrivateKey(UserKeyPair.privateKey, "4242", 1, 1)

ErrUnlockFallback == <<"Failed to unlock private key">>

PkInit ==
    /\ pkState = [privateKey |-> "none", isUnlocking |-> FALSE, unlockError |-> <<>>,
                  showPinModal |-> FALSE, pendingResolve |-> NoResolve]
    /\ pkPromises = [p \in PromiseIds |-> "unused"]
    /\ pkUnlocks = {}
    /\ pkOwed = {}

\* the promises handed out so far
Handed == {p \in PromiseIds : pkPromises[p] # "unused"}

\* requestPrivateKey, lines 35-39
RequestPrivateKey ==
    /\ \E p \in PromiseIds :
          /\ pkPromises[p] = "unused"
          /\ \A o \in PromiseIds : o < p => pkPromises[o] # "unused"
          /\ IF pkState.privateKey # "none"
             THEN /\ pkPromises' = [pkPromises EXCEPT ![p] = pkState.privateKey]
                  /\ UNCHANGED pkState
             ELSE /\ pkPromises' = [pkPromises EXCEPT ![p] = "pending"]
                  /\ pkState' = [pkState EXCEPT !.showPinModal = TRUE,
                                                !.pendingResolve = p]
    /\ UNCHANGED <<pkUnlocks, pkOwed>>
    /\ UNCHANGED notPk

\* unlockPrivateKey(pin) up to its await, lines 16-20; the callback is that
\* of the current render, so its closure holds the current pendingResolve
UnlockStart ==
    /\ Cardinality(pkUnlocks) < MaxUnlocks
    /\ \E pin \in Pins :
          /\ [pin |-> pin, held |-> pkState.pendingResolve, seen |-> Handed] \notin pkUnlocks
          /\ pkUnlocks' = pkUnlocks \cup
                 {[pin |-> pin, held |-> pkState.pendingResolve, seen |-> Handed]}
    /\ pkState' = [pkState EXCEPT !.isUnlocking = TRUE, !.unlockError = <<>>]
    /\ UNCHANGED <<pkPromises, pkOwed>>
    /\ UNCHANGED notPk

\* a resolve function called with a key settles its promise once
Resolved(promises, p, key) ==
    IF p # NoResolve /\ promises[p] = "pending"
    THEN [promises EXCEPT ![p] = key]
    ELSE promises

\* unlockPrivateKey after its await, lines 20-31
UnlockSettles ==
    \E u \in pkUnlocks :
        /\ pkUnlocks' = pkUnlocks \ {u}
        /\ LET res == getPrivateKey(PkStoredRecord, u.pin) IN
           IF res.outcome = "ok"
           THEN /\ pkState' = [pkState EXCEPT !.privateKey = res.key,
                                              !.showPinModal = FALSE,
                                              !.pendingResolve = NoResolve,
                                              !.isUnlocking = FALSE]
                /\ pkPromises' = Resolved(pkPromises, u.held, res.key)
                /\ pkOwed' = pkOwed \cup {p \in u.seen : pkPromises'[p] = "pending"}
           ELSE /\ pkState' = [pkState EXCEPT
                                 !.unlockError = OrElse(res.error, ErrUnlockFallback),
                                 !.isUnlocking = FALSE]
                /\ UNCHANGED <<pkPromises, pkOwed>>
        /\ UNCHANGED notPk

\* clearPrivateKey, lines 42-44
ClearPrivateKey ==
    /\ pkState.privateKey # "none"
    /\ pkState' = [pkState EXCEPT !.privateKey = "none"]
    /\ UNCHANGED <<pkPromises, pkUnlocks, pkOwed>>
    /\ UNCHANGED notPk

PkNext ==
    \/ RequestPrivateKey
    \/ UnlockStart
    \/ UnlockSettles
    \/ ClearPrivateKey

(***************************************************************************)
(*                            Specifications                               *)
(***************************************************************************)
\* the user-interface providers while none is mounted
UiRest == AuthRest /\ TokRest /\ ClInit /\ PkInit

Init == ApiInit /\ KeyInit /\ CanonRest /\ SessRest /\ UiRest

InitCanon == ApiInit /\ KeyInit /\ CanonInit /\ SessRest /\ UiRest

InitSess == ApiInit /\ KeyInit /\ CanonRest /\ SessInit /\ UiRest

InitMemo == ApiInit /\ KeyInit /\ MemoInit /\ SessRest /\ UiRest

InitAuth ==
    ApiInit /\ KeyInit /\ CanonRest /\ SessRest /\ AuthInit /\ TokRest /\ ClInit /\ PkInit

InitTok ==
    ApiInit /\ KeyInit /\ CanonRest /\ SessRest /\ AuthRest /\ TokInit /\ ClInit /\ PkInit

SpecApi == Init /\ [][ApiNext]_vars

SpecKeys == Init /\ [][KeyNext]_vars

SpecCanon == InitCanon /\ [][CanonNext]_vars

SpecSess == InitSess /\ [][SessNext]_vars

SpecTamper == Init /\ [][TamperNext]_vars

SpecAuth == InitAuth /\ [][AuthNext]_vars

SpecTok == InitTok /\ [][TokNext]_vars

SpecLogin == Init /\ [][ClNext]_vars

SpecMemo == InitMemo /\ [][MemoNext]_vars

SpecPk == Init /\ [][PkNext]_vars

\* a getPrivateKey call that was made settles: the IndexedDB read and the
\* key derivation complete on their own; what the user does is not forced
SpecPkFair == SpecPk /\ WF_vars(UnlockSettles)

(***************************************************************************)
(* Scheduling: the event loop runs every continuation whose promise has    *)
(* settled, and fetch and WebCrypto promises settle.  Starting a call,     *)
(* the clock and the server's key rotation are not forced.                 *)
(***************************************************************************)
CallStep(c) ==
    \/ KeyFetchResponse(c)
    \/ KeyImported(c)
    \/ SignDone(c)
    \/ EphGenerated(c)
    \/ Derived(c)
    \/ Encrypted(c)
    \/ GatewayResponse(c)
    \/ CatchError(c)
    \/ TempKeyGenerated(c)
    \/ Completed(c)

SpecApiFair == SpecApi /\ \A c \in Calls : WF_vars(CallStep(c))

AllQuiet == \A c \in Calls : calls[c].pc \in {"idle", "resolved", "rejected"}

(***************************************************************************)
(*                               Properties                                *)
(***************************************************************************)
InFlight(c) == calls[c].wire.to = "gateway"

SettledPcs == {"resolved", "rejected"}

(***************************************************************************)
(* C1 - session isolation: every request posted to the gateway carries the *)
(* ephemeral key generated by that very request, so no ephemeral key pair  *)
(* serves more than one request.                                           *)
(***************************************************************************)
C1_EphemeralKeyPerRequest ==
    \A c \in Calls :
        InFlight(c) => calls[c].wire.ephemeral_pubkey = Fresh(c, calls[c].att)

(***************************************************************************)
(* C2 - wrong-PIN rejection: unlocking a stored record with a PIN other    *)
(* than the one it was encrypted under fails with the invalid-PIN error    *)
(* and returns no key.                                                     *)
(***************************************************************************)
PinOfRecord(rec) == rec.encrypted.key[1]

WrongPinTried ==
    /\ unlockResult.outcome # "none"
    /\ unlockResult.record # Absent
    /\ PinOfRecord(unlockResult.record) # unlockResult.pin

C2_WrongPinRejected ==
    WrongPinTried =>
        /\ unlockResult.outcome = "error"
        /\ unlockResult.error = ErrInvalidPin
        /\ unlockResult.key = "none"

C2_Witness == WrongPinTried /\ unlockResult.error = ErrInvalidPin

(***************************************************************************)
(* C3 - canonicalization determinism: two deep-equal values whose objects  *)
(* were built in different insertion orders canonicalize to the same       *)
(* string, with either _getCanonicalJson of the repository.                *)
(***************************************************************************)
CanonicalDeterministicCurrent ==
    canonPc = "done" =>
        /\ canonOut.a.ok /\ canonOut.b.ok
        /\ canonOut.a.text = canonOut.b.text

CanonicalDeterministicEarlier ==
    canonPc = "done" =>
        /\ canonOut.a0.ok /\ canonOut.b0.ok
        /\ canonOut.a0.text = canonOut.b0.text

C3_CanonicalDeterministic == CanonicalDeterministicCurrent /\ CanonicalDeterministicEarlier

(***************************************************************************)
(* C4 - key custody round trip: unlocking the stored record with the PIN   *)
(* it was encrypted under yields the private key that was wrapped, also    *)
(* after a reload of the page, and a signature made with the unlocked key  *)
(* verifies under the public key of the same pair.                         *)
(***************************************************************************)
PublicKeyFor(privateKey) == generateKeyPair(privateKey).publicKey

RightPinTried ==
    /\ unlockResult.outcome # "none"
    /\ unlockResult.record # Absent
    /\ PinOfRecord(unlockResult.record) = unlockResult.pin

C4Unlock ==
    RightPinTried =>
        /\ unlockResult.outcome = "ok"
        /\ unlockResult.key = unlockResult.record.encrypted.pt
        /\ unlocked = unlockResult.key

C4Sign ==
    (lastSig' # lastSig /\ lastSig' # NoSig /\ unlockResult.outcome = "ok") =>
        verifySignature(lastSig', PlainPayload,
                        PublicKeyFor(unlockResult.record.encrypted.pt))

C4_KeyCustodyRoundTrip == []C4Unlock /\ [][C4Sign]_vars

C4_Witness ==
    /\ reloaded
    /\ RightPinTried
    /\ unlockResult.outcome = "ok"
    /\ lastSig # NoSig
    /\ verifySignature(lastSig, PlainPayload, PublicKeyFor(unlockResult.record.encrypted.pt))

(***************************************************************************)
(* C5 - per-request state machine: a request moves through Signing,        *)
(* KeyAgreement, Encrypting, (Transmitted) AwaitingResponse in that order  *)
(* and ends in Decrypted or Failed; the envelope is posted only on the     *)
(* step that leaves Encrypting, sealed under the agreed session key, and   *)
(* nothing is posted after a failure.                                      *)
(***************************************************************************)
Stage(r) ==
    CASE r.pc = "sign" -> "Signing"
      [] r.pc \in {"ephGen", "derive"} -> "KeyAgreement"
      [] r.pc = "encrypt" -> "Encrypting"
      [] r.pc = "awaitResp" -> "AwaitingResponse"
      [] r.pc = "decrypted" -> "Decrypted"
      [] r.pc = "failed" -> "Failed"
      [] OTHER -> "Idle"

StageSteps ==
    {<<"Idle", "Idle">>, <<"Idle", "Signing">>, <<"Idle", "Failed">>,
     <<"Signing", "KeyAgreement">>, <<"Signing", "Failed">>,
     <<"KeyAgreement", "KeyAgreement">>, <<"KeyAgreement", "Encrypting">>,
     <<"KeyAgreement", "Failed">>,
     <<"Encrypting", "AwaitingResponse">>, <<"Encrypting", "Failed">>,
     <<"AwaitingResponse", "Decrypted">>, <<"AwaitingResponse", "Failed">>,
     <<"Decrypted", "Idle">>, <<"Failed", "Idle">>}

C5Step(c) ==
    LET r == calls[c]
        q == calls'[c]
    IN  \/ q = r
        \/ /\ q.pc \in SettledPcs
           /\ Stage(r) \in {"Decrypted", "Failed"}
        \/ /\ q.pc \notin SettledPcs
           /\ q.att # r.att
           /\ Stage(r) \in {"Idle", "Decrypted"}
           /\ Stage(q) \in {"Idle", "Signing", "Failed"}
           /\ q.sends = r.sends
           /\ q.wire = NoWire
        \/ /\ q.pc \notin SettledPcs
           /\ q.att = r.att
           /\ <<Stage(r), Stage(q)>> \in StageSteps
           /\ IF Stage(r) = "Encrypting" /\ Stage(q) = "AwaitingResponse"
              THEN /\ q.sends = r.sends + 1
                   /\ q.wire.to = "gateway"
                   /\ r.sig # NoSig
                   /\ r.session # NoSession
                   /\ q.wire.ciphertext.key = r.session
                   /\ q.wire.ciphertext.pt = r.envelope
                   /\ r.envelope.client_signature = r.sig
              ELSE /\ q.sends = r.sends
                   /\ q.wire \in {r.wire, NoWire}

C5_RequestStateMachine == [][\A c \in Calls : C5Step(c)]_vars

C5_Witness ==
    \E c \in Calls : calls[c].pc = "decrypted" /\ calls[c].sends = 1

(***************************************************************************)
(* C6 - single automatic retry: within one call the original request is    *)
(* made again at most once, only after a first failure tagged [401] and a  *)
(* refresh that returned an access token; a failure of any other kind, of  *)
(* the refresh or of the retry rejects the call; a call posts at most      *)
(* three envelopes, and every call that was started settles.               *)
(***************************************************************************)
C6Bounds ==
    \A c \in Calls : calls[c].retries <= 1 /\ calls[c].sends <= 3 /\ calls[c].att <= 3

C6Step(c) ==
    LET r == calls[c]
        q == calls'[c]
    IN  /\ (q.pc \notin SettledPcs /\ q.retries # r.retries) =>
              /\ q.retries = r.retries + 1
              /\ q.phase = "retry"
              /\ r.phase = "refresh"
              /\ r.pc = "decrypted"
              /\ Is401(r.firstErr)
              /\ decryptResponse(r.body, r.session).access # "none"
        /\ (q.phase = "retry") => (r.phase = "retry" \/ q.retries = r.retries + 1)
        /\ (q # r /\ r.pc = "failed" /\ r.phase = "first" /\ ~Is401(r.err)) =>
              q.pc = "rejected"
        /\ (q # r /\ r.pc = "failed" /\ r.phase \in {"refresh", "retry"}) =>
              q.pc = "rejected"

C6_SingleRetry == []C6Bounds /\ [][\A c \in Calls : C6Step(c)]_vars /\ <>[]AllQuiet

C6_Witness ==
    \E c \in Calls : /\ calls[c].phase = "retry"
                     /\ calls[c].pc = "decrypted"
                     /\ calls[c].retries = 1
                     /\ calls[c].sends = 3

(***************************************************************************)
(* C7 - server-key fetch failure: a request whose fetch of the server key  *)
(* failed rejects with the server-key-unavailable error, has posted        *)
(* nothing and has used no key.                                            *)
(***************************************************************************)
KeyFetchFailed(r) ==
    r.pc = "failed" /\ HasUnlockedKeyPair(r.reqKeyPair) /\ r.skey = NoKey

C7_ServerKeyFetchFailure ==
    \A c \in Calls :
        KeyFetchFailed(calls[c]) =>
            /\ calls[c].err = ErrServerKey
            /\ calls[c].wire = NoWire
            /\ calls[c].session = NoSession
            /\ calls[c].importing = NoPem

(***************************************************************************)
(* C8 - server-key cache expiry: a request is never served a cached server *)
(* key whose age has reached the longest duration the model observes       *)
(* (any shorter lifetime of the cache implies this).                       *)
(***************************************************************************)
C8_ServerKeyCacheExpires ==
    \A c \in Calls : calls[c].cacheHit => calls[c].keyAge < MaxNow

(***************************************************************************)
(* C9 - interleaved use of the server-key cache: whenever both cached      *)
(* values are set they describe the same key, and the key and the PEM      *)
(* returned to a request belong to the same key.                           *)
(***************************************************************************)
C9_ServerKeyCacheConsistent ==
    /\ (serverPublicKey # NoKey /\ serverPublicKeyPem # NoPem) =>
           importServerPublicKey(serverPublicKeyPem) = serverPublicKey
    /\ \A c \in Calls :
           (calls[c].pc = "sign" /\ calls[c].spem # NoPem) =>
               importServerPublicKey(calls[c].spem) = calls[c].skey

(***************************************************************************)
(* C10 - the PIN is never transmitted: no payload handed to secureApi and  *)
(* no envelope in flight to the gateway contains the PIN.                  *)
(***************************************************************************)
C10_PinNeverHandedOver ==
    \A c \in Calls :
        /\ calls[c].payload.pin = "none"
        /\ calls[c].reqPayload.pin = "none"
        /\ InFlight(c) => calls[c].wire.ciphertext.pt.transaction_data.pin = "none"

(***************************************************************************)
(* C11 - error classification is preserved: an error raised by a           *)
(* sub-component reaches the caller with its original classification.      *)
(* Stated for decryptPrivateKey / getPrivateKey: the error an unlock       *)
(* attempt rejects with has the name of the error that was raised inside.  *)
(***************************************************************************)
C11_ErrorClassificationPreserved ==
    unlockResult.outcome = "error" =>
        ErrorName(unlockResult.error) =
            RaisedByUnlock(unlockResult.record, unlockResult.pin)

(***************************************************************************)
(* C12 - error-response unwrapping: a request answered with an error       *)
(* status s rejects with the tag of s followed by the message the body     *)
(* decrypts to, or by a generic message when the body has no message or    *)
(* does not decrypt; a request never returns a response for an error       *)
(* status.                                                                 *)
(***************************************************************************)
StatusTags == {StatusTag(s) : s \in Statuses}

ServerErrorTexts == {pt.error : pt \in ResponsePlaintexts} \ {"none"}

GenericErrorTexts == {ErrUnknown, ErrProcess} \cup (OperationErrorMessages \ {<<>>})

C12_ErrorResponseUnwrapped ==
    \A c \in Calls :
        /\ (calls[c].pc = "failed" /\ calls[c].err # <<>> /\ calls[c].err[1] \in StatusTags) =>
               Tail(calls[c].err) \in {<<m>> : m \in ServerErrorTexts} \cup GenericErrorTexts
        /\ calls[c].pc = "decrypted" => ResponseOk(calls[c].status)

(***************************************************************************)
(* C13 - unlock outcomes are distinguishable: loading from an empty store  *)
(* gives the absent result, and an unlock attempt on an empty store fails  *)
(* with a classified error of its own: neither the invalid-PIN error nor   *)
(* an unclassified crash.                                                  *)
(***************************************************************************)
EmptyStoreTried == unlockResult.outcome # "none" /\ unlockResult.record = Absent

C13_UnlockOutcomesDistinguishable ==
    /\ indexedDB = Absent => getEncryptedKey(indexedDB) = Absent
    /\ EmptyStoreTried =>
           /\ unlockResult.outcome = "error"
           /\ unlockResult.error # ErrInvalidPin
           /\ ErrorName(unlockResult.error) = "Error"

(***************************************************************************)
(* C14 - key persistence: after any sequence of storeEncryptedKey calls,   *)
(* getEncryptedKey returns the record handed to the latest call, whole;    *)
(* before the first call it returns the absent result.                     *)
(***************************************************************************)
C14_LoadReturnsLastStored ==
    /\ lastStored = Absent => getEncryptedKey(indexedDB) = Absent
    /\ lastStored # Absent => getEncryptedKey(indexedDB) = lastStored

C14_Witness ==
    /\ lastStored # Absent
    /\ getEncryptedKey(indexedDB) = lastStored
    /\ unlockResult.record # Absent
    /\ unlockResult.record.salt # lastStored.salt
    /\ unlockResult.record.encrypted # lastStored.encrypted

(***************************************************************************)
(* C15  Session round trip.                                                *)
(***************************************************************************)
\* the bytes decryptResponse works on are the bytes encryptPayload produced
SameBytesAsSealed ==
    /\ fromBase64(sessWire.ciphertext) = fromBase64(sessSealed.ciphertext)
    /\ fromBase64(sessWire.iv) = fromBase64(sessSealed.iv)

EnvelopeFields ==
    {"target", "url_params", "transaction_data", "client_signature",
     "client_public_key", "timestamp", "nonce"}

\* C16: every plaintext envelope that makeSecureRequest encrypts and sends
\* consists of the fields target, url_params, transaction_data,
\* client_signature, client_public_key, timestamp and nonce.
C16_LogicalEnvelopeShape ==
    \A c \in Calls :
        InFlight(c) => DOMAIN calls[c].wire.ciphertext.pt = EnvelopeFields

(***************************************************************************)
(* C17  Signature coverage.                                                *)
(***************************************************************************)
\* the payload of an envelope together with the request metadata it carries
PayloadPlusMetadata(e) ==
    [transaction_data |-> e.transaction_data,
     target |-> e.target,
     url_params |-> e.url_params,
     timestamp |-> e.timestamp,
     nonce |-> e.nonce]

\* C17: the client_signature of an envelope in flight is the signature,
\* under the caller's private key, of the payload plus the request metadata
\* of that envelope, and client_public_key is the public half of the key
\* that signed.
C17_SignatureCoversMetadata ==
    \A c \in Calls :
        InFlight(c) =>
            LET e == calls[c].wire.ciphertext.pt IN
            /\ e.client_signature =
                   signTransaction(PayloadPlusMetadata(e), calls[c].reqKeyPair.privateKey)
            /\ e.client_public_key =
                   exportPublicKeyAsPem(PublicHalf(e.client_signature.signer))

(***************************************************************************)
(* C18  Signature stability.                                               *)
(***************************************************************************)
\* the bytes a verifier holding the logical payload v checks a signature on
CanonicalBytes(v) == Utf8Encode(getCanonicalJson(v, {}))

TamperedTried ==
    /\ unlockResult.outcome # "none"
    /\ unlockResult.record # Absent
    /\ PinOfRecord(unlockResult.record) = NoKeyOpens

\* an unlock was tried on an unmodified stored record with another PIN than
\* the one it was encrypted under
WrongPinOnIntactTried ==
    /\ unlockResult.outcome # "none"
    /\ unlockResult.record # Absent
    /\ PinOfRecord(unlockResult.record) \notin {NoKeyOpens, unlockResult.pin}

\* C19: decryptPrivateKey with a wrong PIN, and decryptPrivateKey with any
\* PIN (the right one included) on a record whose ciphertext was modified,
\* end in the same single outcome: the error "Invalid PIN. Please try
\* again." and no key.
C19_FailuresIndistinguishable ==
    (TamperedTried \/ WrongPinOnIntactTried) =>
        /\ unlockResult.outcome = "error"
        /\ unlockResult.key = "none"
        /\ unlockResult.error = ErrInvalidPin

\* the right PIN was tried on the stored record after its ciphertext was
\* modified
C19_Witness ==
    /\ lastStored # Absent
    /\ unlockResult.record = [lastStored EXCEPT !.encrypted = TamperCiphertext(@)]
    /\ unlockResult.pin = PinOfRecord(lastStored)
    /\ unlockResult.error = ErrInvalidPin

(***************************************************************************)
(* C20  The plaintext private key never leaves memory.                     *)
(***************************************************************************)
\* what IndexedDB holds is the record { encrypted, salt, iv }, encrypted
\* being AES-GCM output under a key derived from a PIN and the record's salt
StoredIsPinEncrypted ==
    indexedDB # Absent =>
        /\ DOMAIN indexedDB = {"encrypted", "salt", "iv"}
        /\ indexedDB.salt \in Salts
        /\ indexedDB.iv \in Ivs
        /\ \E pin \in Pins :
              indexedDB.encrypted =
                  AesGcmEncrypt(deriveEncryptionKey(pin, indexedDB.salt), indexedDB.iv,
                                indexedDB.encrypted.pt)

\* the values localStorage holds
StorageValues == {localStorage[k] : k \in DOMAIN localStorage}

\* what is posted is { ephemeral_pubkey, ciphertext, iv }; the envelope in
\* the ciphertext carries a signature and the PEM of the public half, and
\* none of its other values is the private key
PostedHidesKey ==
    posted.to = "gateway" =>
        LET e == posted.ciphertext.pt IN
        /\ DOMAIN posted = {"to", "ephemeral_pubkey", "ciphertext", "iv"}
        /\ posted.ciphertext.key = deriveSessionKey(posted.ephemeral_pubkey, serverKey)
        /\ DOMAIN e.client_signature = {"signer", "data"}
        /\ e.client_public_key = exportPublicKeyAsPem(PublicHalf(e.client_signature.signer))
        /\ {e.target, e.auth_token, e.client_public_key[2]} \cap KeyIds = {}
        /\ e.transaction_data = PlainPayload

\* C20: in every reachable state nothing in durable storage (IndexedDB,
\* localStorage) and nothing sent over the network is the plaintext private
\* key; only the PIN-encrypted record { encrypted, salt, iv } is stored.
C20_PrivateKeyStaysInMemory ==
    /\ StoredIsPinEncrypted
    /\ PostedHidesKey
    /\ StorageValues \cap KeyIds = {}

\* a key pair was generated, its record stored, the key unlocked and used
\* in a request
C20_Witness ==
    /\ indexedDB # Absent
    /\ unlocked \in KeyIds
    /\ unlocked = indexedDB.encrypted.pt
    /\ posted.to = "gateway"
    /\ posted.ciphertext.pt.client_signature.signer = unlocked

(***************************************************************************)
(* C21  No local commit before a decrypted success.                        *)
(***************************************************************************)
\* one step of a makeSecureRequest invocation of call c: from its entry to
\* its return or throw (the steps from "failed" and "decrypted" belong to
\* its caller)
C21Step(c) ==
    LET r == calls[c]
        q == calls'[c]
    IN  (q # r /\ r.pc \notin {"failed", "decrypted"}) =>
            IF /\ r.pc = "awaitResp"
               /\ q.pc = "decrypted"
               /\ q.status >= 200 /\ q.status <= 299
               /\ AesGcmDecryptOk(r.session, q.body.iv, q.body.ciphertext)
               /\ q.body.ciphertext.pt.access # "none"
            THEN localStorage' =
                     [localStorage EXCEPT !.accessToken = q.body.ciphertext.pt.access]
            ELSE localStorage' = localStorage

\* C21: makeSecureRequest changes local storage only by storing the access
\* token of a success response that was received and decrypted; every
\* other step of it, a failing one included, leaves local storage
\* unchanged.
C21_NoCommitBeforeSuccess == [][\A c \in Calls : C21Step(c)]_vars

\* a decrypted success response brought a new access token, which is stored
C21_Witness ==
    \E c \in Calls :
        /\ calls[c].pc = "decrypted"
        /\ calls[c].body.ciphertext.pt.access = "a1"
        /\ localStorage.accessToken = "a1"


\* C22: in the PIN-login AuthProvider of part_006, in every reachable state,
\* isAuthenticated is true only if an unlocked key pair is held in memory
C22_AuthenticatedOnlyWhileUnlocked ==
    authSource = "part_006" => (isAuthenticated => unlockedKeyPair # NoKeyPair)

\* a login call settles in this step
LoginSettles == loginCall.pc # "done" /\ loginCall'.pc = "done"

C23Step ==
    LoginSettles =>
        /\ loginCall.pc = "decrypt" =>
               loginCall'.args = <<loginCall.record.encrypted, loginCall.pin,
                                   loginCall.record.salt, loginCall.record.iv>>
        /\ IF loginCall'.decrypted
           THEN /\ loginCall'.result = "true"
                /\ isAuthenticated'
                /\ unlockedKeyPair'.privateKey = UserKeyPair.privateKey
           ELSE /\ loginCall'.result # "true"
                /\ ~isAuthenticated'
                /\ unlockedKeyPair' = NoKeyPair
                /\ authView'.error # <<>>

\* C23: login(pin) with a stored record calls decryptPrivateKey with the
\* record's encrypted, salt and iv and the given PIN; if decryption succeeds
\* it resolves true and leaves the provider authenticated with the unlocked
\* key pair, and if a step fails it leaves isAuthenticated false and
\* unlockedKeyPair null and reports the error
C23_PinLogin == [][C23Step]_vars

C24Step(c) ==
    LET r == calls[c]
        q == calls'[c]
    IN  /\ (r.pc = "idle" /\ q.pc # "idle" /\ q.keyPair.privateKey = "none") =>
              /\ q.pc = "failed"
              /\ q.err = ErrNoKeyPair
              /\ q.sends = 0
              /\ q.wire = NoWire
              /\ UNCHANGED <<serverPublicKey, serverPublicKeyPem, localStorage>>
        /\ (r.pc = "failed" /\ r.keyPair.privateKey = "none" /\ q # r) =>
              /\ q.pc = "rejected"
              /\ UNCHANGED <<serverPublicKey, serverPublicKeyPem, localStorage,
                             isRefreshing>>

\* C24: a secureApi call made without options.keyPair or without
\* keyPair.privateKey rejects before any network activity: neither the
\* public-key endpoint nor the gateway is contacted, and the server-key
\* cache and local storage are unchanged
C24_UnlockedKeyPrecondition == [][\A c \in Calls : C24Step(c)]_vars

C24_Witness ==
    \E c \in Calls :
        /\ calls[c].pc = "failed"
        /\ calls[c].keyPair.privateKey = "none"
        /\ calls[c].err = ErrNoKeyPair
        /\ serverPublicKey = NoKey

\* C25: logout() of the AuthProvider in AuthContext.jsx always ends with the
\* stored tokens removed and with unlockedKeyPair null, isAuthenticated
\* false and pinIsSet false
C25_LogoutCompletes ==
    tokLast = "logout" =>
        /\ tokStorage.accessToken = "none"
        /\ tokStorage.refreshToken = "none"
        /\ tokState.unlockedKeyPair = NoKeyPair
        /\ ~tokState.isAuthenticated
        /\ ~tokState.pinIsSet

C26Step(c) ==
    LET r == calls[c]
        q == calls'[c]
    IN  /\ (r.pc = "failed" /\ r.phase = "refresh" /\ q # r) =>
              /\ localStorage'.accessToken = "none"
              /\ localStorage'.refreshToken = "none"
              /\ localStorage'.userPublicKey = "none"
              /\ localStorage'.encryptedPrivateKey = "none"
              /\ q.pc = "rejected"
              /\ Is401(r.firstErr)
        /\ (/\ r.pc = "failed" /\ r.phase = "first" /\ Is401(r.err) /\ ~isRefreshing
            /\ localStorage.refreshToken = "none" /\ q # r) =>
              /\ q.pc = "rejected"
              /\ UNCHANGED localStorage

\* C26: if the refresh request made by refreshToken rejects, the four
\* items are removed from local storage and secureRequestWithRefresh rejects
\* with the original 401 error without sending the original request again;
\* with no stored refresh token nothing is sent and storage is unchanged
C26_FailedRefreshLogsOut == [][\A c \in Calls : C26Step(c)]_vars

C26_Witness ==
    /\ localStorage = EmptyStorage
    /\ location = "/login"
    /\ \E c \in Calls : calls[c].pc = "rejected"
    /\ \E d \in Calls :
          calls[d].pc = "failed" /\ calls[d].phase = "first" /\ Is401(calls[d].err)


\* the calls whose refresh, or the retry that follows it, is pending
Refreshing == {c \in Calls : calls[c].phase \in {"refresh", "retry"}}

\* C27: under any interleaving of concurrent secureApi calls at most one
\* token refresh is in flight, and isRefreshing is true exactly while a
\* refresh (and the retry that follows it) is pending: it is false again
\* once that ends by success, failure or exception
C27_OneRefreshAtATime ==
    /\ Cardinality(Refreshing) <= 1
    /\ isRefreshing <=> Refreshing # {}

C27_Witness ==
    /\ isRefreshing
    /\ \E c, d \in Calls :
          /\ c # d
          /\ calls[c].phase = "refresh"
          /\ calls[d].pc = "failed" /\ calls[d].phase = "first" /\ Is401(calls[d].err)

C28Step ==
    clPc' # clPc =>
        /\ clPc' = "done" => clOut'.outcome \in {"resolved", "rejected"}
        /\ IF clOut'.outcome = "resolved"
           THEN /\ clPc = "awaitResp"
                /\ clOut'.value.access # "none"
                /\ clOut'.value.refresh # "none"
                /\ clStorage' = [clStorage EXCEPT
                                   !.accessToken = clOut'.value.access,
                                   !.refreshToken = clOut'.value.refresh,
                                   !.userPublicKey = ClPublicKeyPem(clKeyPair.publicKey)]
           ELSE UNCHANGED clStorage

\* C28: cryptoLogin writes accessToken, refreshToken and userPublicKey to
\* local storage only when the decrypted success response contains both
\* access and refresh; on every failure path it rejects and leaves local
\* storage unchanged
C28_CredentialsStoredAtomically == [][C28Step]_vars

C28_Witness ==
    /\ clOut.outcome = "resolved"
    /\ clStorage.accessToken = "a1"
    /\ clStorage.refreshToken = "r1"
    /\ clStorage.userPublicKey = ClPublicKeyPem(UserKeyPair.publicKey)

\* requestPrivateKey made while a key is unlocked resolves at once with it
\* and leaves the PIN modal alone
C29Step ==
    \A p \in PromiseIds :
        (pkPromises[p] = "unused" /\ pkPromises'[p] # "unused" /\ pkState.privateKey # "none")
            => /\ pkPromises'[p] = pkState.privateKey
               /\ pkState'.showPinModal = pkState.showPinModal

\* C29: every promise returned by requestPrivateKey is eventually resolved
\* with the unlocked key once a later unlockPrivateKey call succeeds, also
\* when requestPrivateKey was called more than once before the unlock; with
\* a key already unlocked requestPrivateKey resolves at once with it without
\* opening the PIN modal
C29_PendingRequestsAnswered ==
    /\ [][C29Step]_vars
    /\ \A p \in PromiseIds : (p \in pkOwed) ~> (pkPromises[p] = UserKeyPair.privateKey)

\* C30: after any history of earlier calls (the Map having been emptied
\* beyond its limit included) the memoised _getCanonicalJson returns for
\* every value exactly the text the cache-free recursion returns for it
C30_MemoisationTransparent ==
    canonPc = "memo" => canonOut.a = canonOut.b
====
